---- MODULE Spec2Model ----
\* A model of the heartwood node service: the gossip engine (announcement
\* validation, freshness cache, relay, subscription replay), the routing
\* table (insert, prune) and the periodic prune of the service loop.
\*
\* The service is driven as in radicle-node/src/tests.rs: one event in
\* (a peer connects or disconnects, a message arrives from a peer, the clock
\* elapses), the Io actions of that event out.  `outbox` holds the Io actions
\* emitted by the latest event only, as `alice.messages(..)` / `alice.outbox()`
\* drain them in the tests.
EXTENDS Integers, Sequences, FiniteSets, TLC

\* ------------------------------------------------------------------ bounds

\* Announcements delivered to the service in one behaviour.
MaxAnnouncements == 2
\* Clock advances in one behaviour.
MaxWakes == 1
\* The local time at which the service is constructed.
T0 == 1000
\* The largest routing_max_size the configurations range over.
MaxSizeLimit == 1
\* The non-zero routing_max_age the configurations range over.
MaxAgeLimit == 60

\* --------------------------------------------------------------- constants

\* Announcements dated further than this in the future are rejected.
MAX_TIME_DELTA == 3600
\* The routing table is pruned at this interval.
PRUNE_INTERVAL == 300
\* Timestamp::MIN and Timestamp::MAX (u64::MAX in the program; timestamps
\* are only compared to it, so the largest integer of the checker stands in).
TIMESTAMP_MIN == 0
TIMESTAMP_MAX == 2147483647
\* Ping::MAX_PONG_ZEROES: the longest pong a ping may ask for.
MAX_PONG_ZEROES == 128
\* A pending fetch is given up after this long.
FETCH_DEADLINE == 60
\* A persistent peer is dialled again at most this many times in a row.
MAX_CONNECTION_ATTEMPTS == 3
\* A session that received nothing for longer than this is disconnected.
STALE_CONNECTION_TIMEOUT == 60
\* Connected sessions are pinged at this interval.
PING_INTERVAL == 30

\* ------------------------------------------------------------------ values

\* The remote peers of the tests; the local node is "alice".
Peers == {"bob", "eve"}
PeerSeq == <<"bob", "eve">>
Projects == {"p1", "p2"}
ProjectSeq == <<"p1", "p2">>

Max(a, b) == IF a > b THEN a ELSE b
Min(a, b) == IF a < b THEN a ELSE b
IndexOf(seq, x) == CHOOSE i \in 1..Len(seq) : seq[i] = x

\* Announcement: the signed envelope { node, body }, the body tagged by kind.
\* `inv` is the inventory of an inventory announcement, `rid` the project of a
\* refs announcement (its remote is the announcing node).
NoAnn == [node |-> "none", kind |-> "none", time |-> 0, inv |-> {}, rid |-> "none"]
InventoryAnn(n, inv, t) == [node |-> n, kind |-> "inventory", time |-> t, inv |-> inv, rid |-> "none"]
NodeAnn(n, t) == [node |-> n, kind |-> "node", time |-> t, inv |-> {}, rid |-> "none"]
RefsAnn(n, rid, t) == [node |-> n, kind |-> "refs", time |-> t, inv |-> {}, rid |-> rid]

\* Subscribe { filter, since, until }; the filter is the set of project ids it
\* contains, Filter::default() contains every id.
NoSub == [active |-> FALSE, filter |-> {}, since |-> 0, until |-> 0]
Sub(filter, since, until) == [active |-> TRUE, filter |-> filter, since |-> since, until |-> until]
FilterAll == Projects

\* Io actions the service emits.
Write(p, a) == [io |-> "Write", peer |-> p, msg |-> "Announcement", ann |-> a, sub |-> NoSub, reason |-> "none", time |-> 0]
WriteSubscribe(p, s) == [io |-> "Write", peer |-> p, msg |-> "Subscribe", ann |-> NoAnn, sub |-> s, reason |-> "none", time |-> 0]
WritePing(p, ponglen) == [io |-> "Write", peer |-> p, msg |-> "Ping", ann |-> NoAnn, sub |-> NoSub, reason |-> "none", time |-> ponglen]
WritePong(p, zeroes) == [io |-> "Write", peer |-> p, msg |-> "Pong", ann |-> NoAnn, sub |-> NoSub, reason |-> "none", time |-> zeroes]
WriteFetch(p, rid) == [io |-> "Write", peer |-> p, msg |-> "Fetch", ann |-> [NoAnn EXCEPT !.rid = rid], sub |-> NoSub, reason |-> "none", time |-> 0]
IoFetch(p, rid) == [io |-> "Fetch", peer |-> p, msg |-> "none", ann |-> [NoAnn EXCEPT !.rid = rid], sub |-> NoSub, reason |-> "none", time |-> 0]
Connect(p) == [io |-> "Connect", peer |-> p, msg |-> "none", ann |-> NoAnn, sub |-> NoSub, reason |-> "none", time |-> 0]
Disconnect(p, reason, t) == [io |-> "Disconnect", peer |-> p, msg |-> "none", ann |-> NoAnn, sub |-> NoSub, reason |-> reason, time |-> t]

VARIABLES
    now,         \* the service clock (seconds)
    last_prune,  \* when the routing table was last pruned
    limits,      \* Limits { routing_max_size, routing_max_age }
    sessions,    \* peer -> [state, subscribe]
    cache,       \* gossip cache: announcements in order of acceptance
    routing,     \* routing table: set of [rid, node, time]
    outbox,      \* Io actions emitted by the latest event, in order
    inserts,     \* routing inserts made by the latest event, with their results
    effect,      \* what the latest event changed
    lastEvent,   \* the latest event
    received,    \* announcements delivered so far
    wakes,       \* clock advances so far
    before_prune, \* the routing table the latest prune started from
    session,     \* a Session, driven through its operations
    lastOp,      \* the latest operation on `session`
    panicked,    \* an operation panicked
    wire_peer,   \* the transport's Peer of the session
    storage,     \* the projects in local storage
    deadline,    \* the deadline of the pending fetch, 0 when there is none
    report,      \* how the latest fetch was reported
    trail,       \* the protocols the session has been in, in order
    fetches,     \* fetch commands given so far
    project_tracking, \* Config::project_tracking
    lastTrack,   \* the latest tracking command
    prevTrack,   \* the tracking command before it
    keep,        \* per node: its session with the other node, its clock
    net,         \* per node: the messages on their way to it
    responsive,  \* whether bob handles what it receives
    lastKeep,    \* the latest step of a node
    conns,       \* the sessions of the service, by address
    config_connect, \* Config::connect: the persistent peers
    book,        \* the addresses in the address book
    dialing,     \* the addresses a Connect is under way to
    lastConn,    \* the latest connection event
    dialled,     \* the addresses dialled to make up for lost peers
    losses,      \* the connected peers lost and made up for
    relost,      \* whether a peer dialled to make up was lost in turn
    redials,     \* per address: the Connects since it was last connected
    service_io,  \* the Io the service holds for the transport, oldest first
    actions,     \* the transport's queue of actions for the reactor
    handed,      \* the actions handed to the reactor, oldest first
    produced,    \* per peer: the message batches the service wrote, in order
    wire_connected, \* the peers the transport has in the connected state
    wire_panicked,  \* whether the transport panicked
    framer_input,   \* Framer::input, the bytes buffered
    stream,         \* the bytes on their way to the Framer
    payloads,       \* the payloads of the frames that make up the stream
    arrived,        \* how many bytes of the stream were passed to the Framer
    yielded,        \* the frames the Framer yielded, in order
    kept,           \* whether the latest next() that gave None left the buffer alone
    lastFrame,      \* the latest Framer::frame: its payload and result
    lastMux,        \* the latest conversion of a MuxMsg or of a Frame
    peers,          \* Wire::peers: per file descriptor, the Peer and its node id
    read_queue,     \* Wire::read_queue: the bytes buffered, each with the socket it came from
    registered,     \* the sockets registered with the reactor
    jobs,           \* per file descriptor: the worker's request and response
    delivered,      \* the messages given to the service, in order
    svc,            \* per node id: what the service was last told
    peer_trail,     \* per file descriptor: the states its Peer went through
    lost_bytes,     \* the bytes taken off the read queue without being decoded
    wire_events,    \* the events of the reactor and the service so far
    lastWire,       \* the latest step of the transport
    mesh_storage,   \* per node of the network: the projects in its storage
    mesh,           \* per node of the network: its sessions, cache and routing table
    inflight,       \* per directed link: the messages on their way, oldest first
    mesh_clock      \* the clock the nodes of the network share

\* The variables of the Session under operation.
sessionVars == <<session, lastOp, panicked>>

\* The variables of the fetch lifecycle.
fetchVars == <<wire_peer, storage, deadline, report, trail, fetches>>

\* The variables of the node's configuration and connections.
trackVars == <<project_tracking, lastTrack, prevTrack>>
keepVars == <<keep, net, responsive, lastKeep>>
connVars == <<conns, config_connect, book, dialing, lastConn, dialled, losses, relost, redials>>
wireVars == <<service_io, actions, handed, produced, wire_connected, wire_panicked>>
framingVars == <<framer_input, stream, payloads, arrived, yielded, kept, lastFrame, lastMux>>
transportVars == <<peers, read_queue, registered, jobs, delivered, svc, peer_trail, lost_bytes, wire_events, lastWire>>
meshVars == <<mesh_storage, mesh, inflight, mesh_clock>>
extraVars == <<framingVars, transportVars, meshVars>>
nodeVars == <<trackVars, keepVars, connVars, wireVars, extraVars>>

\* The variables of the gossip engine and the routing table.
gossipVars == <<now, last_prune, limits, sessions, cache, routing, outbox, inserts, effect, lastEvent, received, wakes,
                before_prune>>

vars == <<now, last_prune, limits, sessions, cache, routing, outbox, inserts, effect, lastEvent, received, wakes,
          before_prune, sessionVars, fetchVars, nodeVars>>

\* The latest event: its kind, the peer it came from, the message, and for an
\* announcement what the cache held for its key when it arrived (the cached
\* timestamp, none = -1, and whether the cache held this very announcement).
Event(type, peer, ann, sub, outcome, cachedTime, known) ==
    [type |-> type, peer |-> peer, ann |-> ann, sub |-> sub, outcome |-> outcome,
     cachedTime |-> cachedTime, known |-> known]

Pairs(table) == {<<e.rid, e.node>> : e \in table}

\* What an event changed: whether the cache and the routing table differ
\* from before, and the (project, node) pairs that left the routing table.
Effect(c0, c1, r0, r1) ==
    [cache |-> c0 # c1, routing |-> r0 # r1, dropped |-> Pairs(r0) \ Pairs(r1)]
NoEffect == [cache |-> FALSE, routing |-> FALSE, dropped |-> {}]

\* ---------------------------------------------------------------- sessions

\* Session::connected: a session starts with no subscription.
SessionConnected == [state |-> "connected", subscribe |-> NoSub]
SessionDisconnected == [state |-> "disconnected", subscribe |-> NoSub]

IsConnected(p) == sessions[p].state = "connected"

\* ------------------------------------------------------------ gossip cache

\* The key of the cache: (node, kind, scope), the scope being the project of
\* a refs announcement and () otherwise.
Key(a) == <<a.node, a.kind, IF a.kind = "refs" THEN a.rid ELSE "none">>

Cached(c, k) == {i \in 1..Len(c) : Key(c[i]) = k}

\* The timestamp cached for a key, none (-1) when the key has no entry.
CachedTime(c, k) ==
    IF Cached(c, k) = {} THEN -1 ELSE c[CHOOSE i \in Cached(c, k) : TRUE].time

IsFreshOrEqual(c, a) == CachedTime(c, Key(a)) <= a.time

\* Accept iff the cached timestamp is strictly less than the new one.
IsFresh(c, a) == CachedTime(c, Key(a)) < a.time

\* On accept, the entry of the key is replaced.
CachePut(c, a) == Append(SelectSeq(c, LAMBDA b : Key(b) # Key(a)), a)

TimestampValidOffByOne(t, clock) == t <= clock + MAX_TIME_DELTA + 1

\* Envelope rule 1: a timestamp more than MAX_TIME_DELTA in the future is
\* rejected.
TimestampValid(t, clock) == t <= clock + MAX_TIME_DELTA

\* ------------------------------------------------------------ subscriptions

InWindowInclusive(t, since, until) == since <= t /\ t <= until

\* The window of a subscription: `until` itself is outside of it
\* (test_announcement_rebroadcast_timestamp_filtered).
InWindow(t, since, until) == since <= t /\ t < until

\* Inventory and node announcements carry no project and match every filter;
\* a refs announcement matches a filter that contains its project.
Matches(a, filter) == a.kind = "refs" => a.rid \in filter

\* Whether a subscription covers the announcement: its window holds the
\* timestamp and its filter matches.
Covers(sub, a) == InWindow(a.time, sub.since, sub.until) /\ Matches(a, sub.filter)

\* The announcements replayed to p when it subscribes: the cached ones inside
\* the window that match the filter, never p's own.
Replay(c, p, sub) == SelectSeq(c, LAMBDA a : Covers(sub, a) /\ a.node # p)

WritesTo(p, anns) == [i \in 1..Len(anns) |-> Write(p, anns[i])]

\* ------------------------------------------------------------------- relay

InterestedAlways(s, a) == TRUE

\* Whether an announcement is relayed to a session.  A session that sent no
\* Subscribe is relayed inventory and node announcements
\* (test_inventory_relay, test_announcement_relay) but no refs announcement
\* (test_refs_announcement_no_subscribe).
Interested(s, a) ==
    IF s.subscribe.active THEN Covers(s.subscribe, a) ELSE a.kind # "refs"

RelayToSigner(ss, src, a) ==
    {q \in Peers : ss[q].state = "connected" /\ q # src /\ Interested(ss[q], a)}

\* The peers an accepted announcement is relayed to: every other connected
\* peer, the announcement's signer excepted, whose subscription covers it.
RelayTo(ss, src, a) ==
    {q \in Peers :
        /\ ss[q].state = "connected"
        /\ q # src
        /\ q # a.node
        /\ Interested(ss[q], a)}

RelayWrites(ss, src, a) ==
    LET to == SelectSeq(PeerSeq, LAMBDA q : q \in RelayTo(ss, src, a))
    IN  [i \in 1..Len(to) |-> Write(to[i], a)]

\* ----------------------------------------------------------- routing table

Entry(rid, node, time) == [rid |-> rid, node |-> node, time |-> time]

Lookup(table, rid, node) == {e \in table : e.rid = rid /\ e.node = node}

\* The last-seen of a pair, none (-1) when the table has no such pair.
LastSeen(table, rid, node) ==
    IF Lookup(table, rid, node) = {} THEN -1
    ELSE (CHOOSE e \in Lookup(table, rid, node) : TRUE).time

InsertResultLax(table, rid, node, time) ==
    IF Lookup(table, rid, node) = {} THEN "Fresh"
    ELSE IF \E e \in Lookup(table, rid, node) : e.time <= time THEN "Updated"
    ELSE "Stale"

\* routing.insert's result: Fresh for a new pair, Updated for a known pair
\* with a strictly greater timestamp, Stale otherwise.
InsertResult(table, rid, node, time) ==
    IF Lookup(table, rid, node) = {} THEN "Fresh"
    ELSE IF \E e \in Lookup(table, rid, node) : e.time < time THEN "Updated"
    ELSE "Stale"

RoutingInsertAppend(table, rid, node, time) == table \cup {Entry(rid, node, time)}

\* routing.insert's effect on the table.
RoutingInsert(table, rid, node, time) ==
    IF InsertResult(table, rid, node, time) = "Stale"
    THEN table
    ELSE (table \ Lookup(table, rid, node)) \cup {Entry(rid, node, time)}

RECURSIVE InsertAll(_, _, _, _)
InsertAll(table, rids, node, time) ==
    IF rids = {} THEN table
    ELSE LET rid == CHOOSE r \in rids : TRUE
         IN  InsertAll(RoutingInsert(table, rid, node, time), rids \ {rid}, node, time)

ApplyRoutingReplace(table, a) ==
    IF a.kind = "inventory"
    THEN InsertAll({e \in table : e.node # a.node}, a.inv, a.node, a.time)
    ELSE IF a.kind = "refs" THEN RoutingInsert(table, a.rid, a.node, a.time)
    ELSE table

\* The routing update of an accepted announcement: an insert per project of
\* an inventory, one insert for refs, none for a node announcement.
ApplyRouting(table, a) ==
    IF a.kind = "inventory" THEN InsertAll(table, a.inv, a.node, a.time)
    ELSE IF a.kind = "refs" THEN RoutingInsert(table, a.rid, a.node, a.time)
    ELSE table

\* The inserts ApplyRouting makes, each with the pair's last-seen before it
\* and routing.insert's result.
InsertLog(table, a) ==
    LET rids == IF a.kind = "inventory" THEN a.inv
                ELSE IF a.kind = "refs" THEN {a.rid} ELSE {}
    IN  {[rid |-> r, node |-> a.node, time |-> a.time,
          prev |-> LastSeen(table, r, a.node),
          result |-> InsertResult(table, r, a.node, a.time)] : r \in rids}

\* Oldest first by last-seen, ties by (project-id, node-id).
Before(e, f) ==
    \/ e.time < f.time
    \/ /\ e.time = f.time
       /\ \/ IndexOf(ProjectSeq, e.rid) < IndexOf(ProjectSeq, f.rid)
          \/ /\ e.rid = f.rid
             /\ IndexOf(PeerSeq, e.node) < IndexOf(PeerSeq, f.node)

Oldest(table) == CHOOSE e \in table : \A f \in table \ {e} : Before(e, f)

RECURSIVE EvictOldest(_, _)
EvictOldest(table, k) ==
    IF k <= 0 \/ table = {} THEN table
    ELSE EvictOldest(table \ {Oldest(table)}, k - 1)

\* The entries older than routing_max_age.
Expired(table, clock, lim) == {e \in table : clock - e.time > lim.routing_max_age}

ExpiredDropsAll(table, clock, lim) == {Expired(table, clock, lim)}

\* The sets of expired entries a prune may drop: expired entries are dropped
\* only as far as the table exceeds routing_max_size (test_inventory_pruning:
\* of 50 expired entries 25 stay under routing_max_size = 25, all 50 under
\* routing_max_size = 50, none under routing_max_size = 0).  Which of the
\* expired entries go is left open.
ExpiredDrops(table, clock, lim) ==
    LET old == Expired(table, clock, lim)
        excess == Max(Cardinality(table) - lim.routing_max_size, 0)
    IN  {gone \in SUBSET old : Cardinality(gone) = Min(excess, Cardinality(old))}

\* If routing_max_size > 0 and the table exceeds it, the oldest entries are
\* evicted.
EvictOver(table, lim) ==
    IF lim.routing_max_size > 0 /\ Cardinality(table) > lim.routing_max_size
    THEN EvictOldest(table, Cardinality(table) - lim.routing_max_size)
    ELSE table

PruneNoEviction(table, clock, lim) ==
    {table \ gone : gone \in ExpiredDrops(table, clock, lim)}

\* routing.prune as the periodic task runs it: the tables it may leave.
Prune(table, clock, lim) ==
    {EvictOver(table \ gone, lim) : gone \in ExpiredDrops(table, clock, lim)}

\* ------------------------------------------------------------------ inputs

\* Offsets of an announcement's timestamp from the clock: now, the latest
\* timestamp accepted, the earliest rejected.
TimeOffsets == {0, MAX_TIME_DELTA, MAX_TIME_DELTA + 1}

AnnouncementsOf(inventories, clock) ==
    UNION {
        {InventoryAnn(n, inv, clock + d) : inv \in inventories}
        \cup {NodeAnn(n, clock + d)}
        \cup {RefsAnn(n, rid, clock + d) : rid \in Projects}
        : n \in Peers, d \in TimeOffsets}

\* The announcements peers send.
Announcements(clock) == AnnouncementsOf({{"p1"}}, clock)

\* The announcements of the routing specification: inventories of one
\* project and of both.
RoutingAnnouncements(clock) == AnnouncementsOf({{"p1"}, Projects}, clock)

\* The subscriptions peers send: everything, and project p1 from now on for
\* MAX_TIME_DELTA.
Subscriptions(clock) ==
    { Sub(FilterAll, TIMESTAMP_MIN, TIMESTAMP_MAX),
      Sub({"p1"}, clock, clock + MAX_TIME_DELTA) }

WakeDeltas == {1, PRUNE_INTERVAL}

LimitsOf(size, age) == [routing_max_size |-> size, routing_max_age |-> age]

\* ----------------------------------------------------------------- session

\* Option<Id>::None.
NoRid == "none"

\* PingState.
PingNone == [tag |-> "None", ponglen |-> 0]
AwaitingResponse(ponglen) == [tag |-> "AwaitingResponse", ponglen |-> ponglen]
PingOk == [tag |-> "Ok", ponglen |-> 0]

\* Protocol: Gossip { requested } and Fetch { rid }; the default is
\* Gossip { requested: None }.
Gossip(requested) == [kind |-> "Gossip", rid |-> requested]
Fetch(rid) == [kind |-> "Fetch", rid |-> rid]
ProtocolDefault == Gossip(NoRid)

\* State: Connecting, Connected { since, ping, protocol }, Disconnected { since }.
\* The fields a variant does not have are held at a fixed value.
StateConnecting ==
    [tag |-> "Connecting", since |-> 0, ping |-> PingNone, protocol |-> ProtocolDefault]
StateConnected(since, ping, protocol) ==
    [tag |-> "Connected", since |-> since, ping |-> ping, protocol |-> protocol]
StateDisconnected(since) ==
    [tag |-> "Disconnected", since |-> since, ping |-> PingNone, protocol |-> ProtocolDefault]

\* Session::connecting: an outbound session, one attempt made.
connecting(id, persistent) ==
    [id |-> id, state |-> StateConnecting, link |-> "Outbound", subscribe |-> NoSub,
     persistent |-> persistent, last_active |-> 0, attempts |-> 1]

\* Session::connected.
connected(id, link, persistent, time) ==
    [id |-> id, state |-> StateConnected(time, PingNone, ProtocolDefault), link |-> link,
     subscribe |-> NoSub, persistent |-> persistent, last_active |-> 0, attempts |-> 0]

is_connecting(s) == s.state.tag = "Connecting"
is_connected(s) == s.state.tag = "Connected"
is_disconnected(s) == s.state.tag = "Disconnected"

is_gossip_allowed(s) ==
    s.state.tag = "Connected" /\ s.state.protocol = Gossip(NoRid)

\* FetchResult.
AlreadyFetching(rid) == [tag |-> "AlreadyFetching", rid |-> rid]
Ready(rid) == [tag |-> "Ready", rid |-> rid]
NotConnected == [tag |-> "NotConnected", rid |-> NoRid]

fetchEchoesArgument(s, rid) ==
    IF s.state.tag = "Connected"
    THEN IF s.state.protocol = Gossip(NoRid) THEN Ready(rid) ELSE AlreadyFetching(rid)
    ELSE NotConnected

\* Session::fetch.  The session is left as it is.
fetch(s, rid) ==
    IF s.state.tag = "Connected"
    THEN IF s.state.protocol.kind = "Gossip"
         THEN IF s.state.protocol.rid # NoRid
              THEN AlreadyFetching(s.state.protocol.rid)
              ELSE Ready(rid)
         ELSE AlreadyFetching(s.state.protocol.rid)
    ELSE NotConnected

\* How an operation that changes the session ends: it returns, leaving the
\* session as given, or it panics before it has changed anything.
Done(s) == [panic |-> FALSE, session |-> s]
Panic(s) == [panic |-> TRUE, session |-> s]

\* Session::to_requesting.
to_requesting(s, rid) ==
    IF s.state.tag # "Connected" THEN Panic(s)
    ELSE Done([s EXCEPT !.state.protocol = Gossip(rid)])

to_fetchingGuarded(s, rid) ==
    IF s.state.tag = "Connected" /\ s.state.protocol = Gossip(rid)
    THEN Done([s EXCEPT !.state.protocol = Fetch(rid)])
    ELSE Panic(s)

\* Session::to_fetching.
to_fetching(s, rid) ==
    IF s.state.tag # "Connected" THEN Panic(s)
    ELSE Done([s EXCEPT !.state.protocol = Fetch(rid)])

to_gossipStrict(s) ==
    IF s.state.tag = "Connected" /\ s.state.protocol.kind = "Fetch"
    THEN Done([s EXCEPT !.state.protocol = ProtocolDefault])
    ELSE Panic(s)

\* Session::to_gossip.  A session that is not connected is left as it is.
to_gossip(s) ==
    IF s.state.tag = "Connected"
    THEN IF s.state.protocol.kind = "Fetch"
         THEN Done([s EXCEPT !.state.protocol = ProtocolDefault])
         ELSE Panic(s)
    ELSE Done(s)

to_connectingKeepsAttempts(s) ==
    IF ~is_disconnected(s) THEN Panic(s)
    ELSE Done([s EXCEPT !.state = StateConnecting])

\* Session::to_connecting.
to_connecting(s) ==
    IF ~is_disconnected(s) THEN Panic(s)
    ELSE Done([s EXCEPT !.state = StateConnecting, !.attempts = @ + 1])

to_connectedKeepsAttempts(s, since) ==
    IF ~is_connecting(s) THEN Panic(s)
    ELSE Done([s EXCEPT !.state = StateConnected(since, PingNone, ProtocolDefault)])

\* Session::to_connected.
to_connected(s, since) ==
    IF ~is_connecting(s) THEN Panic(s)
    ELSE Done([s EXCEPT !.attempts = 0,
                        !.state = StateConnected(since, PingNone, ProtocolDefault)])

to_disconnectedOnce(s, since) ==
    IF is_disconnected(s) THEN Done(s)
    ELSE Done([s EXCEPT !.state = StateDisconnected(since)])

\* Session::to_disconnected.
to_disconnected(s, since) == Done([s EXCEPT !.state = StateDisconnected(since)])

pingOnlyWhenNone(s, ponglen) ==
    IF s.state.tag = "Connected" /\ s.state.ping = PingNone
    THEN Done([s EXCEPT !.state.ping = AwaitingResponse(ponglen)])
    ELSE Done(s)

\* Session::ping: a connected session awaits a pong of the length asked for.
ping(s, ponglen) ==
    IF s.state.tag = "Connected"
    THEN Done([s EXCEPT !.state.ping = AwaitingResponse(ponglen)])
    ELSE Done(s)

\* An operation on `session`.
Op(name, rid, time, result, before) ==
    [op |-> name, rid |-> rid, time |-> time, result |-> result, before |-> before]
NoOp == Op("none", NoRid, 0, NotConnected, connecting("bob", FALSE))

\* Peer of the transport: Connecting, Connected, Disconnected, Upgrading
\* { fetch } and Upgraded { response }.  `rid` is the repository of the
\* fetch: in Upgraded, the one the worker has yet to answer for on the
\* response channel, none once the answer has been received.
PeerConnecting == [tag |-> "Connecting", rid |-> NoRid]
PeerConnected == [tag |-> "Connected", rid |-> NoRid]
PeerDisconnected == [tag |-> "Disconnected", rid |-> NoRid]
PeerUpgrading(rid) == [tag |-> "Upgrading", rid |-> rid]
PeerUpgraded(rid) == [tag |-> "Upgraded", rid |-> rid]

\* How an operation on a Peer ends.
PeerDone(p) == [panic |-> FALSE, peer |-> p]
PeerPanic(p) == [panic |-> TRUE, peer |-> p]

\* Peer::upgrading.
upgrading(p, rid) ==
    IF p.tag = "Connected" THEN PeerDone(PeerUpgrading(rid)) ELSE PeerPanic(p)

\* Peer::upgraded: the fetch goes to the worker.
upgraded(p) ==
    IF p.tag = "Upgrading" THEN PeerDone(PeerUpgraded(p.rid)) ELSE PeerPanic(p)

downgradeStaysUpgraded(p) ==
    IF p.tag = "Upgraded" THEN PeerDone(p) ELSE PeerPanic(p)

\* Peer::downgrade.
downgrade(p) ==
    IF p.tag = "Upgraded" THEN PeerDone(PeerConnected) ELSE PeerPanic(p)

\* Wire::connected_fd_by_id finds the peer only when it is Connected, and
\* panics otherwise.
connected_fd_by_id(p) == p.tag = "Connected"

\* The result of a fetch, as the worker hands it back.
FetchSucceeded(rid) == [tag |-> "Ok", rid |-> rid]
FetchFailed(rid) == [tag |-> "Err", rid |-> rid]

\* No fetch is under way.
FetchAtRest ==
    /\ wire_peer = PeerConnecting
    /\ storage = {}
    /\ deadline = 0
    /\ report = "none"
    /\ trail = <<>>
    /\ fetches = 0

\* ProjectTracking: All { blocked } and Allowed(ids).
TrackAll(blocked) == [kind |-> "All", ids |-> blocked]
Allowed(ids) == [kind |-> "Allowed", ids |-> ids]

\* Config::is_tracking.
is_tracking(policy, id) ==
    IF policy.kind = "All" THEN id \notin policy.ids ELSE id \in policy.ids

\* What a change of the policy returns: the policy and whether it was updated.
Updated(policy, changed) == [policy |-> policy, changed |-> changed]

\* Config::track.
track(policy, id) ==
    IF policy.kind = "All" THEN Updated(policy, FALSE)
    ELSE Updated(Allowed(policy.ids \cup {id}), id \notin policy.ids)

untrackAllowedOnly(policy, id) ==
    IF policy.kind = "All" THEN Updated(policy, FALSE)
    ELSE Updated(Allowed(policy.ids \ {id}), id \in policy.ids)

\* Config::untrack.
untrack(policy, id) ==
    IF policy.kind = "All" THEN Updated(TrackAll(policy.ids \cup {id}), id \notin policy.ids)
    ELSE Updated(Allowed(policy.ids \ {id}), id \in policy.ids)

\* A tracking command: the project, what was reported back and the policy
\* before it.
Tracked(op, rid, changed, before) ==
    [op |-> op, rid |-> rid, changed |-> changed, before |-> before]
NoTrack == Tracked("none", NoRid, FALSE, TrackAll({}))

\* The node variables of a service that is given no command:
\* Config::default().
TrackingAtRest ==
    /\ project_tracking = TrackAll({})
    /\ lastTrack = NoTrack
    /\ prevTrack = NoTrack

\* The two nodes that keep each other alive.
Nodes == {"alice", "bob"}
Other(n) == IF n = "alice" THEN "bob" ELSE "alice"

\* A step of a node: the message length or idle time it was about, the
\* session before it and the Io it emitted.
Kept(event, node, len, before, out) ==
    [event |-> event, node |-> node, len |-> len, before |-> before, out |-> out]

\* No node is followed.
KeepAtRest ==
    /\ keep = [n \in Nodes |-> [session |-> connecting(Other(n), FALSE), last_ping |-> 0, clock |-> 0, ticks |-> 0]]
    /\ net = [n \in Nodes |-> <<>>]
    /\ responsive = TRUE
    /\ lastKeep = Kept("none", "alice", 0, connecting("bob", FALSE), <<>>)

\* No session for an address.
NoSession == [connecting("none", FALSE) EXCEPT !.state.tag = "None"]

\* A connection event: the address, the reason of a disconnect, the session
\* before it, the addresses that were connected or being connected to, and
\* the Io emitted.
Conn(event, addr, reason, before, busy, out) ==
    [event |-> event, addr |-> addr, reason |-> reason, before |-> before, busy |-> busy, out |-> out]

\* The addresses the service may hold a session with.
Addrs == Peers \cup {"carol", "dave"}

\* No connection is followed.
ConnAtRest ==
    /\ conns = [a \in Addrs |-> NoSession]
    /\ config_connect = {}
    /\ book = {}
    /\ dialing = {}
    /\ lastConn = Conn("none", "none", "none", NoSession, {}, <<>>)
    /\ dialled = {}
    /\ losses = 0
    /\ relost = FALSE
    /\ redials = [a \in Addrs |-> 0]

\* Nothing passes through the transport.
WireAtRest ==
    /\ service_io = <<>>
    /\ actions = <<>>
    /\ handed = <<>>
    /\ produced = [p \in Peers |-> <<>>]
    /\ wire_connected = {}
    /\ wire_panicked = FALSE

\* The result of Framer::frame or of a conversion: Ok(bytes) or an error.
Ok(bytes) == [ok |-> TRUE, channel |-> 0, bytes |-> bytes]

Err == [ok |-> FALSE, channel |-> 0, bytes |-> <<>>]

\* Nothing is framed.
FramingAtRest ==
    /\ framer_input = <<>>
    /\ stream = <<>>
    /\ payloads = <<>>
    /\ arrived = 0
    /\ yielded = <<>>
    /\ kept = TRUE
    /\ lastFrame = [op |-> "none", payload |-> <<>>, result |-> Err]
    /\ lastMux = [op |-> "none", channel |-> 0, data |-> <<>>, frame |-> <<>>, result |-> Err]

\* The file descriptors of the connections the transport may hold.
MaxFds == 3

Fds == 3..(2 + MaxFds)

\* An entry of Wire::peers: the Peer and the node id it carries, if any.
PeerEntry(peer, id) == [peer |-> peer, id |-> id]

NoPeer == PeerEntry([tag |-> "None", rid |-> NoRid], "none")

\* The worker's side of an upgrade: nothing, a request being worked on, a
\* response ready to be received, a request that could not be sent, a
\* response received.
Job(state, drain) == [state |-> state, drain |-> drain]

NoJob == Job("none", <<>>)

\* What the service was last told about a node, whether it has a fetch
\* under way with it, and how many fetches were started and completed.
SvcNode(last, fetching, started, completed) ==
    [last |-> last, fetching |-> fetching, started |-> started, completed |-> completed]

\* A step of the transport.
WireStep(event, fd, id, before) == [event |-> event, fd |-> fd, id |-> id, before |-> before]

\* The transport holds no connection.
TransportAtRest ==
    /\ peers = [fd \in Fds |-> NoPeer]
    /\ read_queue = <<>>
    /\ registered = {}
    /\ jobs = [fd \in Fds |-> NoJob]
    /\ delivered = <<>>
    /\ svc = [n \in Peers |-> SvcNode("none", FALSE, 0, 0)]
    /\ peer_trail = [fd \in Fds |-> <<>>]
    /\ lost_bytes = <<>>
    /\ wire_events = 0
    /\ lastWire = WireStep("none", 0, "none", NoPeer)

\* The nodes of the three-node network of prop_inventory_exchange_dense.
MeshNodes == {"alice", "bob", "eve"}
MeshSeq == <<"alice", "bob", "eve">>

Routes == {<<n, p>> \in MeshNodes \X MeshNodes : n # p}

\* A node of the network before it connects to anyone.
MeshNode(n) ==
    [sessions |-> [p \in MeshNodes \ {n} |-> SessionDisconnected], cache |-> <<>>, routing |-> {}]

\* No network of nodes is running.
MeshAtRest ==
    /\ mesh_storage = [n \in MeshNodes |-> {}]
    /\ mesh = [n \in MeshNodes |-> MeshNode(n)]
    /\ inflight = [l \in Routes |-> <<>>]
    /\ mesh_clock = T0

ExtraAtRest == FramingAtRest /\ TransportAtRest /\ MeshAtRest

NodeAtRest == TrackingAtRest /\ KeepAtRest /\ ConnAtRest /\ WireAtRest /\ ExtraAtRest

\* The Session variables of a service whose Session is not operated on.
SessionAtRest ==
    /\ session = connecting("bob", FALSE)
    /\ lastOp = NoOp
    /\ panicked = FALSE
    /\ FetchAtRest
    /\ NodeAtRest

\* -------------------------------------------------------------------- Init

InitGossip(lims, ss) ==
    /\ now = T0
    /\ last_prune = T0
    /\ limits \in lims
    /\ sessions = ss
    /\ cache = <<>>
    /\ routing = {}
    /\ outbox = <<>>
    /\ inserts = {}
    /\ effect = NoEffect
    /\ lastEvent = Event("init", "none", NoAnn, NoSub, "none", -1, FALSE)
    /\ received = 0
    /\ wakes = 0
    /\ before_prune = {}

InitWith(lims, ss) == InitGossip(lims, ss) /\ SessionAtRest

\* The service after construction: no session, empty cache and routing table.
Init == InitWith({LimitsOf(MaxSizeLimit, MaxAgeLimit)}, [p \in Peers |-> SessionDisconnected])

\* ----------------------------------------------------------------- actions

\* A peer connects: the session is created and the initial exchange
\* (Subscribe, local inventory, local node announcement) is written to it.
Connected(p) ==
    /\ ~IsConnected(p)
    /\ sessions' = [sessions EXCEPT ![p] = SessionConnected]
    /\ outbox' = << WriteSubscribe(p, Sub(FilterAll, TIMESTAMP_MIN, TIMESTAMP_MAX)),
                    Write(p, InventoryAnn("alice", {}, now)),
                    Write(p, NodeAnn("alice", now)) >>
    /\ inserts' = {}
    /\ effect' = NoEffect
    /\ lastEvent' = Event("connected", p, NoAnn, NoSub, "none", -1, FALSE)
    /\ UNCHANGED <<now, last_prune, limits, cache, routing, received, wakes, before_prune, sessionVars, fetchVars, nodeVars>>

\* A peer's connection is gone: its session is dropped.
Disconnected(p) ==
    /\ IsConnected(p)
    /\ sessions' = [sessions EXCEPT ![p] = SessionDisconnected]
    /\ outbox' = <<>>
    /\ inserts' = {}
    /\ effect' = NoEffect
    /\ lastEvent' = Event("disconnected", p, NoAnn, NoSub, "none", -1, FALSE)
    /\ UNCHANGED <<now, last_prune, limits, cache, routing, received, wakes, before_prune, sessionVars, fetchVars, nodeVars>>

\* An announcement arrives from the connected peer src.
ReceiveAnnouncement(src, a) ==
    /\ received < MaxAnnouncements
    /\ IsConnected(src)
    /\ received' = received + 1
    /\ IF ~TimestampValid(a.time, now)
       THEN /\ outbox' = << Disconnect(src, "InvalidTimestamp", a.time) >>
            /\ inserts' = {}
            /\ UNCHANGED <<cache, routing>>
       ELSE IF ~IsFresh(cache, a)
       THEN /\ outbox' = <<>>
            /\ inserts' = {}
            /\ UNCHANGED <<cache, routing>>
       ELSE /\ cache' = CachePut(cache, a)
            /\ routing' = ApplyRouting(routing, a)
            /\ inserts' = InsertLog(routing, a)
            /\ outbox' = RelayWrites(sessions, src, a)
    /\ effect' = Effect(cache, cache', routing, routing')
    /\ lastEvent' = Event("announcement", src, a, NoSub, "none",
                          CachedTime(cache, Key(a)), \E i \in 1..Len(cache) : cache[i] = a)
    /\ UNCHANGED <<now, last_prune, limits, sessions, wakes, before_prune, sessionVars, fetchVars, nodeVars>>

\* A Subscribe arrives from the connected peer src: the cached announcements
\* it covers are replayed and the session's subscription is set.
ReceiveSubscribe(src, sub) ==
    /\ IsConnected(src)
    /\ outbox' = WritesTo(src, Replay(cache, src, sub))
    /\ sessions' = [sessions EXCEPT ![src].subscribe = sub]
    /\ inserts' = {}
    /\ effect' = NoEffect
    /\ lastEvent' = Event("subscribe", src, NoAnn, sub, "none", -1, FALSE)
    /\ UNCHANGED <<now, last_prune, limits, cache, routing, received, wakes, before_prune, sessionVars, fetchVars, nodeVars>>

\* The clock elapses by d and the service wakes up: the routing table is
\* pruned when PRUNE_INTERVAL has passed since the last prune.
WakeDuties(d) ==
    /\ wakes < MaxWakes
    /\ wakes' = wakes + 1
    /\ now' = now + d
    /\ IF now + d - last_prune >= PRUNE_INTERVAL
       THEN /\ routing' \in Prune(routing, now + d, limits)
            /\ before_prune' = routing
            /\ last_prune' = now + d
            /\ lastEvent' = Event("wake", "none", NoAnn, NoSub, "pruned", -1, FALSE)
       ELSE /\ lastEvent' = Event("wake", "none", NoAnn, NoSub, "none", -1, FALSE)
            /\ UNCHANGED <<routing, last_prune, before_prune>>
    /\ outbox' = <<>>
    /\ inserts' = {}
    /\ effect' = Effect(cache, cache, routing, routing')
    /\ UNCHANGED <<limits, sessions, cache, received>>

Wake(d) ==
    /\ WakeDuties(d)
    /\ UNCHANGED <<sessionVars, fetchVars, nodeVars>>

Next ==
    \/ \E p \in Peers : Connected(p)
    \/ \E p \in Peers : Disconnected(p)
    \/ \E p \in Peers : \E a \in Announcements(now) : ReceiveAnnouncement(p, a)
    \/ \E p \in Peers : \E s \in Subscriptions(now) : ReceiveSubscribe(p, s)
    \/ \E d \in WakeDeltas : Wake(d)

Spec == Init /\ [][Next]_vars

\* The routing table on its own: one peer stays connected, as in
\* test_inventory_pruning, and the limits range over the configurations.
InitRouting ==
    InitWith({LimitsOf(size, age) : size \in 0..MaxSizeLimit, age \in {0, MaxAgeLimit}},
             [p \in Peers |-> IF p = "bob" THEN SessionConnected ELSE SessionDisconnected])

NextRouting ==
    \/ \E a \in RoutingAnnouncements(now) : ReceiveAnnouncement("bob", a)
    \/ \E d \in WakeDeltas : Wake(d)

SpecRouting == InitRouting /\ [][NextRouting]_vars

\* ------------------------------------------------------- session operations

\* Bounds of the session specification: the connection attempts made, and
\* the times operations are given.
MaxAttempts == 3
SessionTimes == {T0, T0 + 1}
Links == {"Inbound", "Outbound"}
PongLens == {0, MAX_PONG_ZEROES}

\* A session as the service creates it: Session::connecting for a peer it
\* connects to, Session::connected for a peer that connected.
InitSession ==
    /\ InitGossip({LimitsOf(MaxSizeLimit, MaxAgeLimit)}, [p \in Peers |-> SessionDisconnected])
    /\ session \in {connecting("bob", persistent) : persistent \in BOOLEAN}
                   \cup {connected("bob", link, persistent, T0) : link \in Links, persistent \in BOOLEAN}
    /\ lastOp = NoOp
    /\ panicked = FALSE
    /\ FetchAtRest
    /\ NodeAtRest

\* The gossip engine, the routing table and the configuration are left
\* alone by the steps of a session.
GossipUntouched ==
    UNCHANGED <<now, last_prune, limits, sessions, cache, routing, inserts, effect,
                lastEvent, received, wakes, before_prune, nodeVars>>

\* One operation on the session: `out` is how it ends, `result` what it
\* returns, `writes` what it writes to the peer.
OperateWriting(name, rid, time, out, result, writes) ==
    /\ session' = out.session
    /\ panicked' = out.panic
    /\ lastOp' = Op(name, rid, time, result, session)
    /\ outbox' = writes
    /\ UNCHANGED fetchVars
    /\ GossipUntouched

Operate(name, rid, time, out, result) ==
    OperateWriting(name, rid, time, out, result, <<>>)

\* The operations; a panic ends the run.
CallFetch(rid) ==
    /\ ~panicked
    /\ Operate("fetch", rid, 0, Done(session), fetch(session, rid))

CallToRequesting(rid) ==
    /\ ~panicked
    /\ Operate("to_requesting", rid, 0, to_requesting(session, rid), NotConnected)

CallToFetching(rid) ==
    /\ ~panicked
    /\ Operate("to_fetching", rid, 0, to_fetching(session, rid), NotConnected)

CallToGossip ==
    /\ ~panicked
    /\ Operate("to_gossip", NoRid, 0, to_gossip(session), NotConnected)

CallToConnecting ==
    /\ ~panicked
    /\ session.attempts < MaxAttempts
    /\ Operate("to_connecting", NoRid, 0, to_connecting(session), NotConnected)

CallToConnected(t) ==
    /\ ~panicked
    /\ Operate("to_connected", NoRid, t, to_connected(session, t), NotConnected)

CallToDisconnected(t) ==
    /\ ~panicked
    /\ Operate("to_disconnected", NoRid, t, to_disconnected(session, t), NotConnected)

\* Session::ping with a Ping that asks for a pong of length n.
CallPing(n) ==
    /\ ~panicked
    /\ OperateWriting("ping", NoRid, n, ping(session, n), NotConnected,
                      IF is_connected(session) THEN <<WritePing(session.id, n)>> ELSE <<>>)

\* The service stores the peer's Subscribe in the session.
SetSubscribe(sub) ==
    /\ ~panicked
    /\ Operate("subscribe", NoRid, 0, Done([session EXCEPT !.subscribe = sub]), NotConnected)

NextSession ==
    \/ \E rid \in Projects : CallFetch(rid)
    \/ \E rid \in Projects : CallToRequesting(rid)
    \/ \E rid \in Projects : CallToFetching(rid)
    \/ CallToGossip
    \/ CallToConnecting
    \/ \E t \in SessionTimes : CallToConnected(t)
    \/ \E t \in SessionTimes : CallToDisconnected(t)
    \/ \E n \in PongLens : CallPing(n)
    \/ SetSubscribe(Sub(FilterAll, TIMESTAMP_MIN, TIMESTAMP_MAX))

SpecSession == InitSession /\ [][NextSession]_vars

\* ---------------------------------------------------------- fetch lifecycle

\* Fetch commands given in one behaviour.
MaxFetches == 2

\* The session to "bob" is established; "eve" is the third peer.
InitFetch ==
    /\ InitGossip({LimitsOf(MaxSizeLimit, MaxAgeLimit)},
                  [p \in Peers |-> IF p = "eve"
                                   THEN [SessionConnected EXCEPT !.subscribe = Sub(FilterAll, TIMESTAMP_MIN, TIMESTAMP_MAX)]
                                   ELSE SessionConnected])
    /\ session \in {connected("bob", link, FALSE, T0) : link \in Links}
    /\ lastOp = NoOp
    /\ panicked = FALSE
    /\ wire_peer = PeerConnected
    /\ storage = {}
    /\ deadline = 0
    /\ report = "none"
    /\ trail = <<ProtocolDefault>>
    /\ fetches = 0
    /\ NodeAtRest

\* The trail grows when the protocol of the session changes.
Trail(s) ==
    IF s.state.protocol = trail[Len(trail)] THEN trail ELSE Append(trail, s.state.protocol)

\* Command::Fetch: Session::fetch decides; on Ready the Fetch message is
\* written to the peer, the session moves to Gossip { requested } and the
\* deadline of the fetch is set.
FetchCommand(rid) ==
    /\ ~panicked
    /\ fetches < MaxFetches
    /\ fetches' = fetches + 1
    /\ LET result == fetch(session, rid)
           out == IF result = Ready(rid) THEN to_requesting(session, rid) ELSE Done(session)
       IN  /\ session' = out.session
           /\ panicked' = (out.panic \/ (result = Ready(rid) /\ ~connected_fd_by_id(wire_peer)))
           /\ lastOp' = Op("Command::Fetch", rid, now, result, session)
           /\ outbox' = IF result = Ready(rid) THEN <<WriteFetch("bob", rid)>> ELSE <<>>
           /\ deadline' = IF result = Ready(rid) THEN now + FETCH_DEADLINE ELSE deadline
           /\ report' = IF result = Ready(rid) THEN "none" ELSE report
           /\ trail' = Trail(out.session)
    /\ UNCHANGED <<wire_peer, storage>>
    /\ GossipUntouched

\* The peer accepts the fetch it was asked for: the session moves to
\* Fetch { rid } and Io::Fetch has the transport upgrade the peer
\* (Wire::upgrade), which asks the reactor for the connection.
FetchAccepted(rid) ==
    /\ ~panicked
    /\ wire_peer.tag = "Connected"
    /\ session.state.tag = "Connected"
    /\ session.state.protocol = Gossip(rid)
    /\ LET out == to_fetching(session, rid)
           up == upgrading(wire_peer, rid)
       IN  /\ session' = out.session
           /\ wire_peer' = up.peer
           /\ panicked' = (out.panic \/ up.panic)
           /\ lastOp' = Op("FetchOk", rid, now, Ready(rid), session)
           /\ trail' = Trail(out.session)
    /\ outbox' = <<IoFetch("bob", rid)>>
    /\ UNCHANGED <<storage, deadline, report, fetches>>
    /\ GossipUntouched

\* Wire::handover_transport of a peer that is Upgrading: Wire::upgraded
\* sends the fetch and the connection to the worker.
Handover ==
    /\ ~panicked
    /\ wire_peer.tag = "Upgrading"
    /\ LET up == upgraded(wire_peer)
       IN  /\ wire_peer' = up.peer
           /\ panicked' = up.panic
    /\ lastOp' = Op("handover", wire_peer.rid, now, Ready(wire_peer.rid), session)
    /\ outbox' = <<>>
    /\ UNCHANGED <<session, storage, deadline, report, trail, fetches>>
    /\ GossipUntouched

\* Service::fetch_complete: the session goes back to gossip; a fetch that
\* succeeded leaves the project in storage and is announced.
ServiceFetchComplete(result) ==
    LET out == to_gossip(session)
    IN  /\ session' = out.session
        /\ panicked' = out.panic
        /\ trail' = Trail(out.session)
        /\ deadline' = 0
        /\ IF out.panic
           THEN /\ outbox' = <<>>
                /\ UNCHANGED <<storage, report>>
           ELSE IF result.tag = "Ok"
           THEN /\ storage' = storage \cup {result.rid}
                /\ report' = "fetched"
                /\ outbox' = RelayWrites(sessions, "none", RefsAnn("alice", result.rid, now))
           ELSE /\ report' = "failed"
                /\ outbox' = <<>>
                /\ UNCHANGED storage

\* Wire::tick receives the worker's response of an Upgraded peer and
\* Wire::fetch_complete handles it: the connection is made a transport
\* again, the peer downgraded and the result given to the service.  When the
\* transport cannot be made the response is dropped.
FetchComplete(result, transport_ok) ==
    /\ ~panicked
    /\ wire_peer.tag = "Upgraded"
    /\ wire_peer.rid = result.rid
    /\ lastOp' = Op("fetch_complete", result.rid, now,
                    IF transport_ok THEN result ELSE NotConnected, session)
    /\ IF transport_ok
       THEN /\ wire_peer' = downgrade(wire_peer).peer
            /\ ServiceFetchComplete(result)
       ELSE /\ wire_peer' = PeerUpgraded(NoRid)
            /\ outbox' = <<>>
            /\ UNCHANGED <<session, panicked, storage, deadline, report, trail>>
    /\ UNCHANGED fetches
    /\ GossipUntouched

\* The clock advances; a fetch whose deadline has passed is given up: the
\* session is sent back to gossip and the fetch is reported failed.
WakeFetch(d) ==
    /\ ~panicked
    /\ WakeDuties(d)
    /\ IF deadline # 0 /\ now + d >= deadline
       THEN LET out == to_gossip(session)
            IN  /\ session' = out.session
                /\ panicked' = out.panic
                /\ trail' = Trail(out.session)
                /\ deadline' = 0
                /\ report' = IF out.panic THEN report ELSE "failed"
                /\ lastOp' = Op("expire", session.state.protocol.rid, now + d, NotConnected, session)
       ELSE /\ lastOp' = Op("wake", NoRid, now + d, NotConnected, session)
            /\ UNCHANGED <<session, panicked, trail, deadline, report>>
    /\ UNCHANGED <<wire_peer, storage, fetches, nodeVars>>

NextFetch ==
    \/ \E rid \in Projects : FetchCommand(rid)
    \/ \E rid \in Projects : FetchAccepted(rid)
    \/ Handover
    \/ \E rid \in Projects : \E result \in {FetchSucceeded(rid), FetchFailed(rid)} :
           \E ok \in BOOLEAN : FetchComplete(result, ok)
    \/ \E d \in WakeDeltas : WakeFetch(d)

SpecFetch == InitFetch /\ [][NextFetch]_vars

\* ----------------------------------------------------------------- tracking

\* Every project tracking policy over the projects.
InitTracking ==
    /\ InitGossip({LimitsOf(MaxSizeLimit, MaxAgeLimit)}, [p \in Peers |-> SessionDisconnected])
    /\ session = connecting("bob", FALSE)
    /\ lastOp = NoOp
    /\ panicked = FALSE
    /\ FetchAtRest
    /\ project_tracking \in {TrackAll(ids) : ids \in SUBSET Projects}
                            \cup {Allowed(ids) : ids \in SUBSET Projects}
    /\ lastTrack = NoTrack
    /\ prevTrack = NoTrack
    /\ KeepAtRest
    /\ ConnAtRest
    /\ WireAtRest
    /\ ExtraAtRest

\* Command::Track: Config::track, the result is reported back.
Track(rid) ==
    /\ project_tracking' = track(project_tracking, rid).policy
    /\ lastTrack' = Tracked("track", rid, track(project_tracking, rid).changed, project_tracking)
    /\ prevTrack' = lastTrack
    /\ UNCHANGED <<gossipVars, sessionVars, fetchVars, keepVars, connVars, wireVars, extraVars>>

\* Command::Untrack: Config::untrack, the result is reported back.
Untrack(rid) ==
    /\ project_tracking' = untrack(project_tracking, rid).policy
    /\ lastTrack' = Tracked("untrack", rid, untrack(project_tracking, rid).changed, project_tracking)
    /\ prevTrack' = lastTrack
    /\ UNCHANGED <<gossipVars, sessionVars, fetchVars, keepVars, connVars, wireVars, extraVars>>

NextTracking ==
    \/ \E rid \in Projects : Track(rid)
    \/ \E rid \in Projects : Untrack(rid)

SpecTracking == InitTracking /\ [][NextTracking]_vars

\* --------------------------------------------------------------- keep-alive

\* Wakes of one node in one behaviour.
MaxTicks == 4

\* The clock advances by a tenth of the timeout, as in
\* test_connection_kept_alive, or by the ping interval.
KeepAliveDeltas == {STALE_CONNECTION_TIMEOUT \div 10, PING_INTERVAL}

\* Messages between the nodes.
PingMsg(len) == [msg |-> "Ping", len |-> len]
PongMsg(len) == [msg |-> "Pong", len |-> len]

\* The pings a peer may have sent on connecting: none, the longest pong
\* supported, one more than that.
FirstPings == {<<>>, <<PingMsg(MAX_PONG_ZEROES)>>, <<PingMsg(MAX_PONG_ZEROES + 1)>>}

PongForAnyLength(p, ponglen) == <<WritePong(p, ponglen)>>

\* The answer to a Ping: a Pong of the length asked for, none when it is
\* longer than supported.
PongFor(p, ponglen) ==
    IF ponglen <= MAX_PONG_ZEROES THEN <<WritePong(p, ponglen)>> ELSE <<>>

PingDueNever(since_last) == FALSE

\* Whether the sessions are pinged at a wake, given the time since they
\* last were.
PingDue(since_last) == since_last >= PING_INTERVAL

IsStaleLate(idle) ==
    IF idle > 2 * STALE_CONNECTION_TIMEOUT THEN {TRUE} ELSE {FALSE}

\* Whether a session that received nothing for `idle` is disconnected: it
\* is beyond the timeout; at the timeout itself either may be.
IsStale(idle) ==
    IF idle > STALE_CONNECTION_TIMEOUT THEN {TRUE}
    ELSE IF idle = STALE_CONNECTION_TIMEOUT THEN BOOLEAN
    ELSE {FALSE}

\* The messages among the Io a node emitted.
Sent(out) ==
    LET writes == SelectSeq(out, LAMBDA io : io.io = "Write")
    IN  [i \in 1..Len(writes) |-> [msg |-> writes[i].msg, len |-> writes[i].time]]

\* Alice and bob are connected to each other at T0; bob may have sent a
\* ping, and may be unresponsive from then on.
InitKeepAlive ==
    /\ InitGossip({LimitsOf(MaxSizeLimit, MaxAgeLimit)}, [p \in Peers |-> SessionDisconnected])
    /\ session = connecting("bob", FALSE)
    /\ lastOp = NoOp
    /\ panicked = FALSE
    /\ FetchAtRest
    /\ TrackingAtRest
    /\ keep = [n \in Nodes |->
                 [session |-> [connected(Other(n), IF n = "alice" THEN "Outbound" ELSE "Inbound", FALSE, T0)
                                  EXCEPT !.last_active = T0],
                  last_ping |-> T0, clock |-> T0, ticks |-> 0]]
    /\ net \in {[n \in Nodes |-> IF n = "alice" THEN first ELSE <<>>] : first \in FirstPings}
    /\ responsive \in BOOLEAN
    /\ lastKeep = Kept("none", "alice", 0, connecting("bob", FALSE), <<>>)
    /\ ConnAtRest
    /\ WireAtRest
    /\ ExtraAtRest

\* A node that handles what it receives.
Handles(n) == n = "alice" \/ responsive

\* Nothing is on its way to a node that would handle it.
Settled == \A n \in Nodes : Handles(n) => net[n] = <<>>

KeepAliveFrame == UNCHANGED <<gossipVars, sessionVars, fetchVars, trackVars, connVars, wireVars, extraVars, responsive>>

\* Service::wake of node n after d seconds: the session is pinged when a
\* ping is due, and disconnected with Timeout when it is stale.
WakeNode(n, d) ==
    /\ Handles(n)
    /\ Settled
    /\ keep[n].ticks < MaxTicks
    /\ LET k == keep[n]
           s == k.session
           t == k.clock + d
           due == is_connected(s) /\ PingDue(t - k.last_ping)
       IN  \E len \in PongLens : \E stale \in IsStale(t - s.last_active) :
               LET out == (IF is_connected(s) /\ stale
                           THEN <<Disconnect(s.id, "Timeout", 0)>> ELSE <<>>)
                          \o (IF due THEN <<WritePing(s.id, len)>> ELSE <<>>)
               IN  /\ keep' = [keep EXCEPT ![n] =
                                 [session |-> IF due THEN ping(s, len).session ELSE s,
                                  last_ping |-> IF due THEN t ELSE k.last_ping,
                                  clock |-> t,
                                  ticks |-> k.ticks + 1]]
                   /\ net' = [net EXCEPT ![Other(n)] = @ \o Sent(out)]
                   /\ lastKeep' = Kept("wake", n, t - s.last_active, s, out)
    /\ KeepAliveFrame

\* Node n receives a Ping: the session has been active, and the Ping is
\* answered unless it asks for more than is supported.
ReceivePing(n) ==
    /\ Handles(n)
    /\ net[n] # <<>>
    /\ Head(net[n]).msg = "Ping"
    /\ is_connected(keep[n].session)
    /\ LET s == keep[n].session
           out == PongFor(s.id, Head(net[n]).len)
       IN  /\ keep' = [keep EXCEPT ![n].session.last_active = keep[n].clock]
           /\ net' = [net EXCEPT ![n] = Tail(@), ![Other(n)] = @ \o Sent(out)]
           /\ lastKeep' = Kept("ping", n, Head(net[n]).len, s, out)
    /\ KeepAliveFrame

\* Node n receives a Pong: the session has been active; a Pong of the
\* length awaited settles the ping, one of another length is misbehaviour.
ReceivePong(n) ==
    /\ Handles(n)
    /\ net[n] # <<>>
    /\ Head(net[n]).msg = "Pong"
    /\ is_connected(keep[n].session)
    /\ LET s == keep[n].session
           awaited == s.state.ping.tag = "AwaitingResponse"
           valid == Head(net[n]).len = s.state.ping.ponglen
           out == IF awaited /\ ~valid THEN <<Disconnect(s.id, "Misbehavior", 0)>> ELSE <<>>
       IN  /\ keep' = [keep EXCEPT ![n].session =
                         [s EXCEPT !.last_active = keep[n].clock,
                                   !.state.ping = IF awaited /\ valid THEN PingOk ELSE @]]
           /\ net' = [net EXCEPT ![n] = Tail(@)]
           /\ lastKeep' = Kept("pong", n, Head(net[n]).len, s, out)
    /\ KeepAliveFrame

NextKeepAlive ==
    \/ \E n \in Nodes : \E d \in KeepAliveDeltas : WakeNode(n, d)
    \/ \E n \in Nodes : ReceivePing(n)
    \/ \E n \in Nodes : ReceivePong(n)

SpecKeepAlive == InitKeepAlive /\ [][NextKeepAlive]_vars

\* -------------------------------------------------------------- connections

\* Connected peers lost and made up for in one behaviour.
MaxLosses == 2

\* DisconnectReason: a connection error, a dial error, a disconnect the
\* operator asked for.
Reasons == {"ConnectionError", "DialError", "Command"}

IsTransientAlways(reason) == TRUE

\* A connection error is transient; a dial error and a requested disconnect
\* are not.
IsTransient(reason) == reason = "ConnectionError"

\* The addresses the service is connected or connecting to.
Busy == {a \in Addrs : conns[a] # NoSession} \cup dialing

CandidatesAny(lost) == book \ {lost}

\* The known addresses a Connect may go to when a peer is lost.
Candidates(lost) == book \ (Busy \cup {lost})

\* Alice is connected to bob and eve, as in test_persistent_peer_reconnect
\* (both persistent, empty address book) and test_maintain_connections
\* (neither persistent, other addresses known).
InitConnect ==
    /\ InitGossip({LimitsOf(MaxSizeLimit, MaxAgeLimit)}, [p \in Peers |-> SessionDisconnected])
    /\ session = connecting("bob", FALSE)
    /\ lastOp = NoOp
    /\ panicked = FALSE
    /\ FetchAtRest
    /\ TrackingAtRest
    /\ KeepAtRest
    /\ WireAtRest
    /\ ExtraAtRest
    /\ config_connect \in {{}, {"bob"}, {"bob", "eve"}}
    /\ book \in {{}, {"carol", "dave"}, Addrs}
    /\ conns = [a \in Addrs |-> IF a \in Peers
                                 THEN connected(a, "Outbound", a \in config_connect, T0)
                                 ELSE NoSession]
    /\ dialing = {}
    /\ lastConn = Conn("none", "none", "none", NoSession, {}, <<>>)
    /\ dialled = {}
    /\ losses = 0
    /\ relost = FALSE
    /\ redials = [a \in Addrs |-> 0]

ConnectFrame == UNCHANGED <<gossipVars, sessionVars, fetchVars, trackVars, keepVars, wireVars, extraVars, config_connect, book>>

\* Service::disconnected.  A persistent peer lost to a transient error is
\* dialled again while its attempts are below the maximum; a connected peer
\* lost to a transient error and not dialled again is made up for by a known
\* address that is not busy; otherwise nothing is emitted.  The session of a
\* persistent peer is kept, Disconnected; that of another peer is dropped.
DisconnectedWith(a, reason) ==
    /\ conns[a].state.tag \in {"Connected", "Connecting"}
    /\ LET s == conns[a]
           gone == IF s.persistent THEN to_disconnected(s, T0).session ELSE NoSession
           reconnect == IsTransient(reason) /\ s.persistent /\ s.attempts < MAX_CONNECTION_ATTEMPTS
           makeup == ~reconnect /\ IsTransient(reason) /\ is_connected(s) /\ Candidates(a) # {}
       IN  /\ relost' = (relost \/ a \in dialled)
           /\ IF reconnect
              THEN /\ conns' = [conns EXCEPT ![a] = gone]
                   /\ dialing' = dialing \cup {a}
                   /\ redials' = [redials EXCEPT ![a] = @ + 1]
                   /\ lastConn' = Conn("disconnected", a, reason, s, Busy, <<Connect(a)>>)
                   /\ UNCHANGED <<dialled, losses>>
              ELSE IF makeup
              THEN /\ losses < MaxLosses
                   /\ \E c \in Candidates(a) :
                          /\ conns' = [conns EXCEPT ![a] = gone, ![c] = connecting(c, c \in config_connect)]
                          /\ dialled' = dialled \cup {c}
                          /\ lastConn' = Conn("disconnected", a, reason, s, Busy, <<Connect(c)>>)
                   /\ losses' = losses + 1
                   /\ UNCHANGED <<dialing, redials>>
              ELSE /\ conns' = [conns EXCEPT ![a] = gone]
                   /\ lastConn' = Conn("disconnected", a, reason, s, Busy, <<>>)
                   /\ UNCHANGED <<dialing, dialled, losses, redials>>
    /\ ConnectFrame

\* Service::attempted: the Connect to a peer that is dialled again is under
\* way, Session::to_connecting counts the attempt.
Attempted(a) ==
    /\ a \in dialing
    /\ is_disconnected(conns[a])
    /\ conns' = [conns EXCEPT ![a] = to_connecting(conns[a]).session]
    /\ dialing' = dialing \ {a}
    /\ lastConn' = Conn("attempted", a, "none", conns[a], Busy, <<>>)
    /\ UNCHANGED <<dialled, losses, relost, redials>>
    /\ ConnectFrame

\* Service::connected: the connection is established,
\* Session::to_connected resets the attempts.
ConnectedTo(a) ==
    /\ is_connecting(conns[a])
    /\ conns' = [conns EXCEPT ![a] = to_connected(conns[a], T0).session]
    /\ redials' = [redials EXCEPT ![a] = 0]
    /\ lastConn' = Conn("connected", a, "none", conns[a], Busy, <<>>)
    /\ UNCHANGED <<dialing, dialled, losses, relost>>
    /\ ConnectFrame

NextConnect ==
    \/ \E a \in Addrs : \E reason \in Reasons : DisconnectedWith(a, reason)
    \/ \E a \in Addrs : Attempted(a)
    \/ \E a \in Addrs : ConnectedTo(a)

SpecConnect == InitConnect /\ [][NextConnect]_vars

\* ---------------------------------------------------------------- transport

\* Io the service emits in one behaviour.
MaxWrites == 3

\* Io::Write(node_id, msgs) and Io::Wakeup, as the transport takes them from
\* the service.
IoWrite(p, msgs) == [io |-> "Write", peer |-> p, msgs |-> msgs]

IoWakeup == [io |-> "Wakeup", peer |-> "none", msgs |-> <<>>]

\* reactor::Action::Send(fd, data) and reactor::Action::SetTimer.
Send(fd, data) == [action |-> "Send", fd |-> fd, data |-> data]

SetTimer == [action |-> "SetTimer", fd |-> 0, data |-> <<>>]

\* The file descriptor of a peer's connection.
fd_by_id(p) == IF p = "bob" THEN 3 ELSE 4

\* The messages written: a short and a long one.
Messages == {"ping", "ann"}

\* Message::encode: a type, the length of the payload, the payload.
encode(m) == IF m = "ping" THEN <<1, 0>> ELSE <<2, 2, 7, 7>>

\* Message::decode over a buffer: the messages it holds, in order.
RECURSIVE decode(_)
decode(data) ==
    IF Len(data) < 2 THEN <<>>
    ELSE LET m == IF data[1] = 1 THEN "ping" ELSE "ann"
             n == 2 + data[2]
         IN  <<m>> \o decode(SubSeq(data, n + 1, Len(data)))

\* The loop of Wire::next over the messages of a write: each is encoded
\* onto the end of the buffer.
RECURSIVE EncodeAll(_)
EncodeAll(msgs) ==
    IF msgs = <<>> THEN <<>> ELSE encode(Head(msgs)) \o EncodeAll(Tail(msgs))

push_front(queue, action) == <<action>> \o queue

\* VecDeque::push_back on the transport's queue of actions.
push_back(queue, action) == Append(queue, action)

\* The batches of messages a write may hold.
Batches == {<<>>} \cup {<<m>> : m \in Messages} \cup {<<m, n>> : m, n \in Messages}

\* The state of Wire::next's loop: the Io left, the queue of actions, and
\* whether connected_fd_by_id panicked.
RECURSIVE Drain(_, _)
Drain(ios, queue) ==
    IF ios = <<>> THEN [left |-> ios, queue |-> queue, panic |-> FALSE]
    ELSE LET ev == Head(ios)
         IN  IF ev.io = "Write"
             THEN IF ev.peer \in wire_connected
                  THEN Drain(Tail(ios), push_back(queue, Send(fd_by_id(ev.peer), EncodeAll(ev.msgs))))
                  ELSE [left |-> Tail(ios), queue |-> queue, panic |-> TRUE]
             ELSE Drain(Tail(ios), push_back(queue, SetTimer))

InitWire ==
    /\ InitGossip({LimitsOf(MaxSizeLimit, MaxAgeLimit)}, [p \in Peers |-> SessionDisconnected])
    /\ session = connecting("bob", FALSE)
    /\ lastOp = NoOp
    /\ panicked = FALSE
    /\ FetchAtRest
    /\ TrackingAtRest
    /\ KeepAtRest
    /\ ConnAtRest
    /\ service_io = <<>>
    /\ actions = <<>>
    /\ handed = <<>>
    /\ produced = [p \in Peers |-> <<>>]
    /\ wire_connected \in {Peers, {"bob"}}
    /\ wire_panicked = FALSE
    /\ ExtraAtRest

WireFrame == UNCHANGED <<gossipVars, sessionVars, fetchVars, trackVars, keepVars, connVars, extraVars, wire_connected>>

\* The service writes a batch of messages to a peer.
ServiceWrites(p, msgs) ==
    /\ ~wire_panicked
    /\ Len(service_io) + Len(actions) + Len(handed) < MaxWrites
    /\ service_io' = Append(service_io, IoWrite(p, msgs))
    /\ produced' = [produced EXCEPT ![p] = Append(@, msgs)]
    /\ UNCHANGED <<actions, handed, wire_panicked>>
    /\ WireFrame

\* The service asks to be woken up.
ServiceWakeup ==
    /\ ~wire_panicked
    /\ Len(service_io) + Len(actions) + Len(handed) < MaxWrites
    /\ service_io' = Append(service_io, IoWakeup)
    /\ UNCHANGED <<actions, handed, produced, wire_panicked>>
    /\ WireFrame

\* Wire::next: the Io of the service is taken in order, until there is none
\* left, each write becoming one Send at the back of the queue; then the
\* action at the front of the queue, if any, is handed to the reactor.
WireNext ==
    /\ ~wire_panicked
    /\ LET d == Drain(service_io, actions)
       IN  /\ service_io' = d.left
           /\ wire_panicked' = d.panic
           /\ IF d.panic \/ d.queue = <<>>
              THEN /\ actions' = d.queue
                   /\ handed' = handed
              ELSE /\ actions' = Tail(d.queue)
                   /\ handed' = Append(handed, Head(d.queue))
    /\ UNCHANGED produced
    /\ WireFrame

NextWire ==
    \/ \E p \in Peers : \E msgs \in Batches : ServiceWrites(p, msgs)
    \/ ServiceWakeup
    \/ WireNext

SpecWire == InitWire /\ [][NextWire]_vars

\* ------------------------------------------------------------------ framing

\* Frames in a stream.
MaxFrames == 2

\* u16::to_be_bytes and u16::from_be_bytes.
to_be_bytes(n) == <<n \div 256, n % 256>>

from_be_bytes(b) == b[1] * 256 + b[2]

\* A sequence of n zero bytes.
Zeroes(n) == [i \in 1..n |-> 0]

\* PlainTranscoder::encode and PlainTranscoder::decode: the bytes as they are.
transcode_encode(data) == data

transcode_decode(data) == data

\* Framer::frame: the length of the encoded payload is converted to a u8
\* (OversizedData when it does not fit) and its big-endian bytes, one byte,
\* are put before the payload.
frame(decoded) ==
    LET data == transcode_encode(decoded)
        len == Len(data)
    IN  IF len > 255 THEN Err ELSE Ok(<<len>> \o data)

\* Framer::next: the frame it returns, if any, and the buffer it leaves.
\* read_exact on the buffer takes the two bytes of the length off its front;
\* two more bytes are popped before the payload is split off.
next(input) ==
    IF Len(input) < 2 THEN [item |-> Err, input |-> input]
    ELSE LET len == from_be_bytes(SubSeq(input, 1, 2))
             read == SubSeq(input, 3, Len(input))
         IN  IF Len(read) < 2 + len THEN [item |-> Err, input |-> read]
             ELSE LET popped == Tail(Tail(read))
                  IN  [item |-> Ok(SubSeq(popped, 1, len)),
                       input |-> SubSeq(popped, len + 1, Len(popped))]

\* `for frame in &mut pipeline`: next() is called until it gives None.
RECURSIVE Iterate(_, _)
Iterate(input, frames) ==
    LET n == next(input)
    IN  IF n.item.ok THEN Iterate(n.input, Append(frames, n.item.bytes))
        ELSE [frames |-> frames, input |-> n.input, kept |-> n.input = input]

\* From<MuxMsg> for Frame: the channel as two big-endian bytes, then the data.
FrameFromMuxMsg(channel, data) == to_be_bytes(channel) \o data

\* TryFrom<Frame> for MuxMsg: ChannelError for a frame shorter than two
\* bytes; otherwise the channel is read through a cursor, and the data is
\* the vector the cursor was made of.
MuxMsgTryFrom(fr) ==
    IF Len(fr) < 2 THEN Err
    ELSE [ok |-> TRUE, channel |-> from_be_bytes(SubSeq(fr, 1, 2)), bytes |-> fr]

\* A frame as the wire has it: the length of the payload as two big-endian
\* bytes, then the payload.
FrameOf(payload) == to_be_bytes(Len(payload)) \o payload

RECURSIVE Concat(_)
Concat(seqs) == IF seqs = <<>> THEN <<>> ELSE Head(seqs) \o Concat(Tail(seqs))

\* The payloads of test::decode, a MuxMsg on channel 0 and one on channel 1,
\* and an empty one.
StreamPayloads == {<<>>, <<0, 0, 97, 98>>, <<0, 1, 77>>}

\* The payloads given to Framer::frame, up to the lengths around 255.
FramePayloads == StreamPayloads \cup {Zeroes(255), Zeroes(256)}

Channels == {0, 1, 258, 65535}

MuxData == {<<>>, <<97, 98>>, <<77>>}

ShortFrames == {<<>>, <<1>>}

PayloadSeqs == {<<>>} \cup {<<p>> : p \in StreamPayloads} \cup {<<p, q>> : p, q \in StreamPayloads}

InitFraming ==
    /\ InitGossip({LimitsOf(MaxSizeLimit, MaxAgeLimit)}, [p \in Peers |-> SessionDisconnected])
    /\ session = connecting("bob", FALSE)
    /\ lastOp = NoOp
    /\ panicked = FALSE
    /\ FetchAtRest
    /\ TrackingAtRest
    /\ KeepAtRest
    /\ ConnAtRest
    /\ WireAtRest
    /\ framer_input = <<>>
    /\ payloads \in {ps \in PayloadSeqs : Len(ps) <= MaxFrames}
    /\ stream = Concat([i \in 1..Len(payloads) |-> FrameOf(payloads[i])])
    /\ arrived = 0
    /\ yielded = <<>>
    /\ kept = TRUE
    /\ lastFrame = [op |-> "none", payload |-> <<>>, result |-> Err]
    /\ lastMux = [op |-> "none", channel |-> 0, data |-> <<>>, frame |-> <<>>, result |-> Err]
    /\ TransportAtRest
    /\ MeshAtRest

FramingFrame ==
    UNCHANGED <<gossipVars, sessionVars, fetchVars, trackVars, keepVars, connVars, wireVars, transportVars,
                meshVars>>

\* Framer::frame on a payload.
Frame(payload) ==
    /\ lastFrame' = [op |-> "frame", payload |-> payload, result |-> frame(payload)]
    /\ UNCHANGED <<framer_input, stream, payloads, arrived, yielded, kept, lastMux>>
    /\ FramingFrame

\* The next n bytes of the stream are passed to Framer::input and the Framer
\* is iterated, as test::decode does for each byte.
Feed(n) ==
    /\ n <= Len(stream)
    /\ LET it == Iterate(framer_input \o transcode_decode(SubSeq(stream, 1, n)), <<>>)
       IN  /\ framer_input' = it.input
           /\ yielded' = yielded \o it.frames
           /\ kept' = it.kept
    /\ stream' = SubSeq(stream, n + 1, Len(stream))
    /\ arrived' = arrived + n
    /\ UNCHANGED <<payloads, lastFrame, lastMux>>
    /\ FramingFrame

\* A MuxMsg is converted into a Frame and the frame back into a MuxMsg.
MuxRoundTrip(channel, data) ==
    /\ lastMux' = [op |-> "roundtrip", channel |-> channel, data |-> data,
                   frame |-> FrameFromMuxMsg(channel, data),
                   result |-> MuxMsgTryFrom(FrameFromMuxMsg(channel, data))]
    /\ UNCHANGED <<framer_input, stream, payloads, arrived, yielded, kept, lastFrame>>
    /\ FramingFrame

\* A frame shorter than a channel id is converted into a MuxMsg.
MuxShort(fr) ==
    /\ lastMux' = [op |-> "try_from", channel |-> 0, data |-> <<>>, frame |-> fr, result |-> MuxMsgTryFrom(fr)]
    /\ UNCHANGED <<framer_input, stream, payloads, arrived, yielded, kept, lastFrame>>
    /\ FramingFrame

NextFraming ==
    \/ \E payload \in FramePayloads : Frame(payload)
    \/ \E n \in 1..Len(stream) : Feed(n)
    \/ \E channel \in Channels : \E data \in MuxData : MuxRoundTrip(channel, data)
    \/ \E fr \in ShortFrames : MuxShort(fr)

SpecFraming == InitFraming /\ [][NextFraming]_vars

\* ------------------------------------------------------ transport peers

\* Events of the reactor and Io of the service in one behaviour.
MaxWireEvents == 6

\* reactor::Action::RegisterTransport and reactor::Action::UnregisterTransport.
RegisterTransport(fd) == [action |-> "RegisterTransport", fd |-> fd, data |-> <<>>]

UnregisterTransport(fd) == [action |-> "UnregisterTransport", fd |-> fd, data |-> <<>>]

\* Peer::connected.
Peer_connected(p) ==
    IF p.tag = "Connecting" THEN PeerDone(PeerConnected) ELSE PeerPanic(p)

\* Peer::disconnected: from Connected or Connecting, a panic otherwise.
Peer_disconnected(p) ==
    IF p.tag \in {"Connected", "Connecting"} THEN PeerDone(PeerDisconnected) ELSE PeerPanic(p)

\* The entries Wire::fd_by_id may find for a node id: Connected,
\* Disconnected with the id, Upgrading or Upgraded; which one it finds when
\* there are several is up to the order of the map.
fd_by_id_finds(ps, id) ==
    {fd \in Fds : ps[fd].id = id /\ ps[fd].peer.tag \in {"Connected", "Disconnected", "Upgrading", "Upgraded"}}

\* Wire::connected: the file descriptors of the Connected peers with an id.
ConnectedFds(ps, id) == {fd \in Fds : ps[fd].peer.tag = "Connected" /\ ps[fd].id = id}

\* The outcome of an operation of the transport: whether it panicked, the
\* peers and the actions pushed on the queue.
WireDone(ps, pushed) == [panic |-> FALSE, peers |-> ps, pushed |-> pushed]

WirePanic(ps) == [panic |-> TRUE, peers |-> ps, pushed |-> <<>>]

\* Wire::disconnect: nothing for a peer already Disconnected; otherwise
\* Peer::disconnected and the socket is queued for unregistration.
disconnect(ps, fd) ==
    IF ps[fd].peer.tag = "Disconnected" THEN WireDone(ps, <<>>)
    ELSE LET r == Peer_disconnected(ps[fd].peer)
         IN  IF r.panic THEN WirePanic(ps)
             ELSE WireDone([ps EXCEPT ![fd].peer = r.peer], <<UnregisterTransport(fd)>>)

\* Wire::upgrade.
upgrade(ps, fd, rid) ==
    IF ps[fd].peer.tag = "Disconnected" THEN WireDone(ps, <<>>)
    ELSE LET r == upgrading(ps[fd].peer, rid)
         IN  IF r.panic THEN WirePanic(ps)
             ELSE WireDone([ps EXCEPT ![fd].peer = r.peer], <<UnregisterTransport(fd)>>)

\* The closing of the conflicting sessions, one file descriptor after the
\* other.
RECURSIVE CloseAll(_, _, _)
CloseAll(ps, fds, pushed) ==
    IF fds = {} THEN WireDone(ps, pushed)
    ELSE LET fd == CHOOSE f \in fds : \A g \in fds : f <= g
             r == disconnect(ps, fd)
         IN  IF r.panic THEN r ELSE CloseAll(r.peers, fds \ {fd}, pushed \o r.pushed)

\* A byte of the read queue, with the socket it was received on.
Byte(b, fd) == [b |-> b, from |-> fd]

\* What peers send: a ping, the start of an announcement, the rest of it,
\* and a byte that is no message type followed by a ping.
Chunks == {encode("ping"), SubSeq(encode("ann"), 1, 2), SubSeq(encode("ann"), 3, 4), <<9>> \o encode("ping")}

\* Message::decode on the read queue: a message and the bytes after it, the
\* end of the buffer when the message is not whole, or an error for a byte
\* that is no message type, which is taken off the queue.
decode_one(q) ==
    IF q = <<>> THEN [res |-> "eof", msg |-> "none", used |-> <<>>, rest |-> q]
    ELSE IF q[1].b \notin {1, 2} THEN [res |-> "err", msg |-> "none", used |-> <<>>, rest |-> Tail(q)]
    ELSE IF Len(q) < 2 \/ Len(q) < 2 + q[2].b THEN [res |-> "eof", msg |-> "none", used |-> <<>>, rest |-> q]
    ELSE [res |-> "ok", msg |-> IF q[1].b = 1 THEN "ping" ELSE "ann",
          used |-> SubSeq(q, 1, 2 + q[2].b), rest |-> SubSeq(q, 3 + q[2].b, Len(q))]

\* A message given to the service: the node it is attributed to, and the
\* sockets its bytes came from.
Delivery(id, fd, d) ==
    [id |-> id, fd |-> fd, msg |-> d.msg, from |-> {d.used[i].from : i \in 1..Len(d.used)}]

\* The loop of SessionEvent::Data: messages are decoded and given to the
\* service until the buffer ends or a message is invalid.
RECURSIVE DecodeLoop(_, _, _, _)
DecodeLoop(q, id, fd, msgs) ==
    LET d == decode_one(q)
    IN  IF d.res = "ok" THEN DecodeLoop(d.rest, id, fd, Append(msgs, Delivery(id, fd, d)))
        ELSE [end |-> d.res, msgs |-> msgs, rest |-> d.rest]

InitTransport ==
    /\ InitGossip({LimitsOf(MaxSizeLimit, MaxAgeLimit)}, [p \in Peers |-> SessionDisconnected])
    /\ session = connecting("bob", FALSE)
    /\ lastOp = NoOp
    /\ panicked = FALSE
    /\ FetchAtRest
    /\ TrackingAtRest
    /\ KeepAtRest
    /\ ConnAtRest
    /\ WireAtRest
    /\ FramingAtRest
    /\ TransportAtRest
    /\ MeshAtRest

TransportFrame ==
    UNCHANGED <<gossipVars, sessionVars, fetchVars, trackVars, keepVars, connVars, framingVars,
                service_io, handed, produced, wire_connected, meshVars>>

\* The transport runs, and the reactor is not in the middle of handing over
\* a socket it was asked for when the queue of actions was last drained.
Polling == ~wire_panicked /\ \A fd \in Fds : peers[fd].peer.tag # "Upgrading"

\* An event of the reactor or an Io of the service may still happen.
MayHappen == Polling /\ wire_events < MaxWireEvents

\* The states the peers went through, with the new ones added.
Trailed(ps) ==
    [fd \in Fds |-> IF ps[fd].peer.tag # peers[fd].peer.tag
                    THEN Append(peer_trail[fd], ps[fd].peer.tag)
                    ELSE peer_trail[fd]]

\* The outcome of an operation becomes the state of the transport.
Becomes(r) ==
    /\ wire_panicked' = r.panic
    /\ peers' = r.peers
    /\ peer_trail' = Trailed(r.peers)
    /\ actions' = actions \o r.pushed

\* ListenerEvent::Accepted, or a dialled connection: a Connecting peer, its
\* transport queued for registration.
Accepted(fd) ==
    /\ MayHappen
    /\ peers[fd] = NoPeer
    /\ Becomes(WireDone([peers EXCEPT ![fd] = PeerEntry(PeerConnecting, "none")], <<RegisterTransport(fd)>>))
    /\ wire_events' = wire_events + 1
    /\ lastWire' = WireStep("accepted", fd, "none", peers[fd])
    /\ UNCHANGED <<read_queue, registered, jobs, delivered, svc, lost_bytes>>
    /\ TransportFrame

\* SessionEvent::Established: the Connected sessions with the node id are
\* closed, the peer becomes Connected and the service is told.
Established(fd, id) ==
    /\ MayHappen
    /\ fd \in registered
    /\ peers[fd].peer.tag = "Connecting"
    /\ LET closed == CloseAll(peers, ConnectedFds(peers, id), <<>>)
           r == Peer_connected(closed.peers[fd].peer)
       IN  /\ Becomes(IF closed.panic \/ r.panic THEN WirePanic(closed.peers)
                      ELSE WireDone([closed.peers EXCEPT ![fd] = PeerEntry(r.peer, id)], closed.pushed))
           /\ svc' = IF closed.panic \/ r.panic THEN svc ELSE [svc EXCEPT ![id].last = "connected"]
    /\ wire_events' = wire_events + 1
    /\ lastWire' = WireStep("established", fd, id, peers[fd])
    /\ UNCHANGED <<read_queue, registered, jobs, delivered, lost_bytes>>
    /\ TransportFrame

\* SessionEvent::Data: from a Connected peer the bytes go onto the read
\* queue and the messages decoded from it to the service, under the id of
\* the peer; an invalid message disconnects the peer.  The bytes of a
\* message that is not whole stay on the queue or are taken off it by the
\* attempt to decode them.  Data from another peer is dropped.
Data(fd, chunk) ==
    /\ MayHappen
    /\ fd \in registered
    /\ peers[fd].peer.tag \in {"Connected", "Disconnected"}
    /\ IF peers[fd].peer.tag = "Connected"
       THEN LET q == read_queue \o [i \in 1..Len(chunk) |-> Byte(chunk[i], fd)]
                l == DecodeLoop(q, peers[fd].id, fd, <<>>)
            IN  /\ delivered' = delivered \o l.msgs
                /\ IF l.end = "err"
                   THEN /\ Becomes(disconnect(peers, fd))
                        /\ read_queue' = l.rest
                        /\ UNCHANGED lost_bytes
                   ELSE /\ Becomes(WireDone(peers, <<>>))
                        /\ \E stays \in BOOLEAN :
                               /\ stays \/ l.rest # <<>>
                               /\ read_queue' = IF stays THEN l.rest ELSE <<>>
                               /\ lost_bytes' = IF stays THEN lost_bytes ELSE lost_bytes \o l.rest
       ELSE /\ Becomes(WireDone(peers, <<>>))
            /\ UNCHANGED <<read_queue, delivered, lost_bytes>>
    /\ wire_events' = wire_events + 1
    /\ lastWire' = WireStep("data", fd, peers[fd].id, peers[fd])
    /\ UNCHANGED <<registered, jobs, svc>>
    /\ TransportFrame

\* SessionEvent::Terminated.
Terminated(fd) ==
    /\ MayHappen
    /\ fd \in registered
    /\ Becomes(disconnect(peers, fd))
    /\ wire_events' = wire_events + 1
    /\ lastWire' = WireStep("terminated", fd, peers[fd].id, peers[fd])
    /\ UNCHANGED <<read_queue, registered, jobs, delivered, svc, lost_bytes>>
    /\ TransportFrame

\* Io::Disconnect for a node the service has a session with, as Wire::next
\* handles it: connected_fd_by_id, then Wire::disconnect.
IoDisconnect(id) ==
    /\ MayHappen
    /\ svc[id].last = "connected"
    /\ IF fd_by_id_finds(peers, id) = {}
       THEN /\ Becomes(WirePanic(peers))
            /\ lastWire' = WireStep("Disconnect", 0, id, NoPeer)
       ELSE \E fd \in fd_by_id_finds(peers, id) :
                /\ Becomes(IF connected_fd_by_id(peers[fd].peer) THEN disconnect(peers, fd) ELSE WirePanic(peers))
                /\ lastWire' = WireStep("Disconnect", fd, id, peers[fd])
    /\ wire_events' = wire_events + 1
    /\ UNCHANGED <<read_queue, registered, jobs, delivered, svc, lost_bytes>>
    /\ TransportFrame

\* Io::Fetch for a node the service has a session with and no fetch under
\* way, as Wire::next handles it: connected_fd_by_id, then Wire::upgrade.
IoFetches(id, rid) ==
    /\ MayHappen
    /\ svc[id].last = "connected"
    /\ ~svc[id].fetching
    /\ svc' = [svc EXCEPT ![id].fetching = TRUE, ![id].started = @ + 1]
    /\ IF fd_by_id_finds(peers, id) = {}
       THEN /\ Becomes(WirePanic(peers))
            /\ lastWire' = WireStep("Fetch", 0, id, NoPeer)
       ELSE \E fd \in fd_by_id_finds(peers, id) :
                /\ Becomes(IF connected_fd_by_id(peers[fd].peer) THEN upgrade(peers, fd, rid) ELSE WirePanic(peers))
                /\ lastWire' = WireStep("Fetch", fd, id, peers[fd])
    /\ wire_events' = wire_events + 1
    /\ UNCHANGED <<read_queue, registered, jobs, delivered, lost_bytes>>
    /\ TransportFrame

\* The reactor takes the action at the front of the queue.  A transport to
\* register is registered.  A transport to unregister is unregistered and
\* handed over (Wire::handover_transport): for a Disconnected peer the
\* connection is dropped and the service told, if the node id is known; for
\* an Upgrading peer Wire::upgraded makes it Upgraded and sends the worker
\* the fetch, the session and the whole read queue, which may fail; for any
\* other peer the transport panics.
ReactorAction ==
    /\ ~wire_panicked
    /\ actions # <<>>
    /\ LET a == Head(actions)
           fd == a.fd
           e == peers[fd]
       IN  /\ lastWire' = WireStep(a.action, fd, e.id, e)
           /\ IF a.action = "RegisterTransport"
              THEN /\ registered' = registered \cup {fd}
                   /\ UNCHANGED <<peers, peer_trail, wire_panicked, jobs, read_queue, svc>>
              ELSE /\ registered' = registered \ {fd}
                   /\ IF e.peer.tag = "Disconnected"
                      THEN /\ svc' = IF e.id = "none" THEN svc
                                     ELSE [svc EXCEPT ![e.id].last = "disconnected", ![e.id].fetching = FALSE]
                           /\ UNCHANGED <<peers, peer_trail, wire_panicked, jobs, read_queue>>
                      ELSE IF e.peer.tag = "Upgrading"
                      THEN /\ peers' = [peers EXCEPT ![fd].peer = upgraded(e.peer).peer]
                           /\ peer_trail' = [peer_trail EXCEPT ![fd] = Append(@, "Upgraded")]
                           /\ \E sent \in BOOLEAN :
                                  jobs' = [jobs EXCEPT ![fd] = Job(IF sent THEN "working" ELSE "unsent", read_queue)]
                           /\ read_queue' = <<>>
                           /\ UNCHANGED <<wire_panicked, svc>>
                      ELSE /\ wire_panicked' = TRUE
                           /\ UNCHANGED <<peers, peer_trail, jobs, read_queue, svc>>
    /\ actions' = Tail(actions)
    /\ UNCHANGED <<delivered, lost_bytes, wire_events>>
    /\ TransportFrame

\* The worker puts its response on the channel of the request.
WorkerResponds(fd) ==
    /\ ~wire_panicked
    /\ jobs[fd].state = "working"
    /\ jobs' = [jobs EXCEPT ![fd].state = "ready"]
    /\ lastWire' = WireStep("response", fd, peers[fd].id, peers[fd])
    /\ UNCHANGED <<peers, read_queue, registered, delivered, svc, peer_trail, lost_bytes, wire_events,
                   actions, wire_panicked>>
    /\ TransportFrame

\* The Upgraded peers whose response can be received.
Completed == {fd \in Fds : peers[fd].peer.tag = "Upgraded" /\ jobs[fd].state = "ready"}

\* Wire::fetch_complete for the responses received, one after the other:
\* where the session can be made a transport again the peer is downgraded,
\* the transport queued for registration and the service told; where it
\* cannot, fetch_complete returns.
RECURSIVE CompleteAll(_, _, _, _)
CompleteAll(ps, fds, wrapped, acc) ==
    IF fds = {} THEN [peers |-> ps, pushed |-> acc.pushed, svc |-> acc.svc]
    ELSE LET fd == CHOOSE f \in fds : \A g \in fds : f <= g
             id == ps[fd].id
         IN  IF fd \in wrapped
             THEN CompleteAll([ps EXCEPT ![fd].peer = downgrade(ps[fd].peer).peer], fds \ {fd}, wrapped,
                              [pushed |-> Append(acc.pushed, RegisterTransport(fd)),
                               svc |-> [acc.svc EXCEPT ![id].fetching = FALSE, ![id].completed = @ + 1]])
             ELSE CompleteAll(ps, fds \ {fd}, wrapped, acc)

\* Wire::tick with a response to receive.
Tick ==
    /\ ~wire_panicked
    /\ Completed # {}
    /\ \E wrapped \in SUBSET Completed :
           LET r == CompleteAll(peers, Completed, wrapped, [pushed |-> <<>>, svc |-> svc])
           IN  /\ Becomes(WireDone(r.peers, r.pushed))
               /\ svc' = r.svc
    /\ jobs' = [fd \in Fds |-> IF fd \in Completed THEN Job("received", jobs[fd].drain) ELSE jobs[fd]]
    /\ lastWire' = WireStep("tick", 0, "none", NoPeer)
    /\ UNCHANGED <<read_queue, registered, delivered, lost_bytes, wire_events>>
    /\ TransportFrame

NextTransport ==
    \/ \E fd \in Fds : Accepted(fd)
    \/ \E fd \in Fds : \E id \in Peers : Established(fd, id)
    \/ \E fd \in Fds : \E chunk \in Chunks : Data(fd, chunk)
    \/ \E fd \in Fds : Terminated(fd)
    \/ \E id \in Peers : IoDisconnect(id)
    \/ \E id \in Peers : \E rid \in Projects : IoFetches(id, rid)
    \/ ReactorAction
    \/ \E fd \in Fds : WorkerResponds(fd)
    \/ Tick

SpecTransport == InitTransport /\ [][NextTransport]_vars

\* ------------------------------------------------ a network of three nodes

\* How far the clock of the network advances.
MaxMeshTicks == 1

\* The projects the nodes of the network may host.
MeshProjects == {"p1"}

\* The messages of a link: a Subscribe or an announcement.
MeshSubscribe(sub) == [msg |-> "Subscribe", ann |-> NoAnn, sub |-> sub]
MeshAnnouncement(a) == [msg |-> "Announcement", ann |-> a, sub |-> NoSub]

AnnouncementsTo(anns) == [i \in 1..Len(anns) |-> MeshAnnouncement(anns[i])]

InitialExchangeNoInventory(n, inv, t) ==
    << MeshSubscribe(Sub(FilterAll, TIMESTAMP_MIN, TIMESTAMP_MAX)) >>

\* The initial exchange of node n on a session that became Connected:
\* Subscribe to everything, then the local inventory.  The node announcement
\* that follows them updates no routing table and is cached under a key of
\* its own, (node, "node"), so it is left out of the network.
InitialExchange(n, inv, t) ==
    << MeshSubscribe(Sub(FilterAll, TIMESTAMP_MIN, TIMESTAMP_MAX)),
       MeshAnnouncement(InventoryAnn(n, inv, t)) >>

\* The sessions of a node an accepted announcement is relayed to: the
\* connected ones other than the source and the announcer whose subscription
\* covers it.
MeshRelayTo(ss, src, a) ==
    {q \in DOMAIN ss :
        /\ ss[q].state = "connected"
        /\ q # src
        /\ q # a.node
        /\ Interested(ss[q], a)}

\* Three nodes with arbitrary inventories, no session between them yet.
InitMesh ==
    /\ InitGossip({LimitsOf(MaxSizeLimit, MaxAgeLimit)}, [p \in Peers |-> SessionDisconnected])
    /\ session = connecting("bob", FALSE)
    /\ lastOp = NoOp
    /\ panicked = FALSE
    /\ FetchAtRest
    /\ TrackingAtRest
    /\ KeepAtRest
    /\ ConnAtRest
    /\ WireAtRest
    /\ FramingAtRest
    /\ TransportAtRest
    /\ mesh_storage \in [MeshNodes -> SUBSET MeshProjects]
    /\ mesh = [n \in MeshNodes |-> MeshNode(n)]
    /\ inflight = [l \in Routes |-> <<>>]
    /\ mesh_clock = T0

MeshFrame ==
    UNCHANGED <<gossipVars, sessionVars, fetchVars, trackVars, keepVars, connVars, wireVars, framingVars,
                transportVars>>

\* Node n's session with p becomes Connected: n writes its initial exchange.
MeshConnected(n, p) ==
    /\ mesh[n].sessions[p].state = "disconnected"
    /\ mesh' = [mesh EXCEPT ![n].sessions[p] = SessionConnected]
    /\ inflight' = [inflight EXCEPT ![<<n, p>>] = @ \o InitialExchange(n, mesh_storage[n], mesh_clock)]
    /\ UNCHANGED <<mesh_storage, mesh_clock>>
    /\ MeshFrame

\* Node p handles the oldest message of its connected peer n.  A Subscribe
\* sets n's subscription and replays the cache to n; an announcement is
\* accepted iff it is fresh, and then cached, applied to the routing table
\* and relayed.
MeshReceive(n, p) ==
    /\ inflight[<<n, p>>] # <<>>
    /\ mesh[p].sessions[n].state = "connected"
    /\ LET m == Head(inflight[<<n, p>>])
           rest == Tail(inflight[<<n, p>>])
       IN  IF m.msg = "Subscribe"
           THEN /\ mesh' = [mesh EXCEPT ![p].sessions[n].subscribe = m.sub]
                /\ inflight' = [inflight EXCEPT
                                    ![<<n, p>>] = rest,
                                    ![<<p, n>>] = @ \o AnnouncementsTo(Replay(mesh[p].cache, n, m.sub))]
           ELSE IF ~IsFresh(mesh[p].cache, m.ann)
           THEN /\ inflight' = [inflight EXCEPT ![<<n, p>>] = rest]
                /\ UNCHANGED mesh
           ELSE /\ mesh' = [mesh EXCEPT ![p].cache = CachePut(@, m.ann),
                                        ![p].routing = ApplyRouting(@, m.ann)]
                /\ inflight' = [l \in Routes |->
                                    IF l = <<n, p>> THEN rest
                                    ELSE IF l[1] = p /\ l[2] \in MeshRelayTo(mesh[p].sessions, n, m.ann)
                                    THEN Append(inflight[l], MeshAnnouncement(m.ann))
                                    ELSE inflight[l]]
    /\ UNCHANGED <<mesh_storage, mesh_clock>>
    /\ MeshFrame

\* Time passes in the network, between two bursts of traffic.
MeshTick ==
    /\ mesh_clock < T0 + MaxMeshTicks
    /\ \A l \in Routes : inflight[l] = <<>>
    /\ mesh_clock' = mesh_clock + 1
    /\ UNCHANGED <<mesh_storage, mesh, inflight>>
    /\ MeshFrame

NextMesh ==
    \/ \E l \in Routes : MeshConnected(l[1], l[2])
    \/ \E l \in Routes : MeshReceive(l[1], l[2])
    \/ MeshTick

SpecMesh == InitMesh /\ [][NextMesh]_vars

\* ------------------------------------------------------------ properties

\* The Io actions of the latest event.
Emitted == {outbox[i] : i \in 1..Len(outbox)}

AnnouncementEvent == lastEvent.type = "announcement"
SubscribeEvent == lastEvent.type = "subscribe"
PruneEvent == lastEvent.type = "wake" /\ lastEvent.outcome = "pruned"

\* The announcement of the latest event passed the envelope's timestamp rule
\* and was fresher than what the cache held for its key.
AcceptedEvent ==
    /\ AnnouncementEvent
    /\ lastEvent.ann.time <= now + MAX_TIME_DELTA
    /\ lastEvent.cachedTime < lastEvent.ann.time

\* Connected peers other than the sender and the signer of the latest
\* announcement.
OtherPeers ==
    {q \in Peers : /\ sessions[q].state = "connected"
                   /\ q # lastEvent.peer
                   /\ q # lastEvent.ann.node}

SubscribedToAll(q) ==
    sessions[q].subscribe = Sub(FilterAll, TIMESTAMP_MIN, TIMESTAMP_MAX)

\* C1: an announcement that passes the envelope rules is accepted (cached,
\* applied to the routing table, relayed) iff its timestamp is strictly
\* greater than the one cached for its (node, kind, scope) key or the key has
\* no entry; otherwise it is dropped: nothing is emitted (no relay, no
\* disconnect) and cache and routing table stay as they were.  The keys of
\* different kinds are independent.
C1_FreshnessDecidesAcceptance ==
    (AnnouncementEvent /\ lastEvent.ann.time <= now + MAX_TIME_DELTA) =>
        LET a == lastEvent.ann
        IN  IF lastEvent.cachedTime < a.time
            THEN /\ \E i \in 1..Len(cache) : cache[i] = a
                 /\ \A i \in 1..Len(cache) : Key(cache[i]) = Key(a) => cache[i] = a
                 /\ \A p \in (IF a.kind = "inventory" THEN a.inv
                              ELSE IF a.kind = "refs" THEN {a.rid} ELSE {}) :
                        \E e \in routing : e.rid = p /\ e.node = a.node /\ e.time >= a.time
                 /\ \A q \in OtherPeers :
                        (SubscribedToAll(q) \/ (a.kind # "refs" /\ ~sessions[q].subscribe.active))
                            => Write(q, a) \in Emitted
            ELSE /\ outbox = <<>>
                 /\ ~effect.cache
                 /\ ~effect.routing

\* A node announcement is accepted and relayed although the cache holds an
\* inventory announcement of the same node with the same timestamp.
C1_Witness ==
    /\ AcceptedEvent
    /\ lastEvent.ann.kind = "node"
    /\ \E i \in 1..Len(cache) :
           /\ cache[i].kind = "inventory"
           /\ cache[i].node = lastEvent.ann.node
           /\ cache[i].time = lastEvent.ann.time
    /\ outbox # <<>>

\* C2: no announcement is ever written to the peer whose node id signed it,
\* and an accepted announcement is never written to the peer it was received
\* from.
C2_NeverBackToSenderOrSigner ==
    \A w \in Emitted :
        (w.io = "Write" /\ w.msg = "Announcement") =>
            /\ w.peer # w.ann.node
            /\ AnnouncementEvent => w.peer # lastEvent.peer

\* An announcement signed by one connected, subscribed peer and delivered by
\* another is accepted.
C2_Witness ==
    /\ AcceptedEvent
    /\ lastEvent.ann.node # lastEvent.peer
    /\ SubscribedToAll(lastEvent.ann.node)
    /\ sessions[lastEvent.ann.node].state = "connected"

C5_FutureTimestampRejected ==
    AnnouncementEvent =>
        IF lastEvent.ann.time > now + MAX_TIME_DELTA
        THEN /\ outbox = << Disconnect(lastEvent.peer, "InvalidTimestamp", lastEvent.ann.time) >>
             /\ ~effect.cache
             /\ ~effect.routing
        ELSE \A w \in Emitted : w.reason # "InvalidTimestamp"

\* An announcement dated one second too far in the future arrives while
\* another peer is connected that it could have been relayed to.
C5_Witness ==
    /\ AnnouncementEvent
    /\ lastEvent.ann.time = now + MAX_TIME_DELTA + 1
    /\ lastEvent.cachedTime = -1
    /\ OtherPeers # {}
    /\ Len(outbox) = 1

\* C6: an announcement the cache already holds is delivered again, by the
\* same or another peer: cache and routing table stay as they are and nothing
\* is relayed.
C6_RedeliveryChangesNothing ==
    (AnnouncementEvent /\ lastEvent.known) =>
        /\ ~effect.cache
        /\ ~effect.routing
        /\ outbox = <<>>

\* A cached announcement is delivered again while a peer is connected that
\* its first delivery was relayed to.
C6_Witness ==
    /\ AnnouncementEvent
    /\ lastEvent.known
    /\ lastEvent.ann.kind = "inventory"
    /\ \E q \in OtherPeers : ~sessions[q].subscribe.active

\* C7: after an inventory announcement of node n is accepted, get(p) holds n
\* for every announced project p and no pair has left the routing table
\* (inventories are additive); a node announcement leaves the routing table
\* as it was.
C7_InventoryIsAdditive ==
    AcceptedEvent =>
        LET a == lastEvent.ann
        IN  /\ a.kind = "inventory" =>
                   /\ \A p \in a.inv : a.node \in {e.node : e \in {f \in routing : f.rid = p}}
                   /\ effect.dropped = {}
            /\ a.kind = "node" => ~effect.routing /\ inserts = {}

\* An inventory without p2 is accepted from a node whose entry for p2 is in
\* the routing table, and stays there.
C7_Witness ==
    /\ AcceptedEvent
    /\ lastEvent.ann.kind = "inventory"
    /\ lastEvent.ann.inv = {"p1"}
    /\ \E e \in routing : e.rid = "p2" /\ e.node = lastEvent.ann.node
    /\ effect.routing

\* C8: routing.insert(p, n, t) returns Fresh when (p, n) was absent, Updated
\* when it was there with a last-seen strictly less than t, Stale otherwise;
\* after a Stale insert the pair's last-seen is what it was, after the others
\* it is t; the table never holds two entries for a pair, and an insert never
\* lowers a pair's last-seen.
C8_InsertResult ==
    /\ \A e, f \in routing : (e.rid = f.rid /\ e.node = f.node) => e = f
    /\ \A r \in inserts :
           LET seen == {e.time : e \in {f \in routing : f.rid = r.rid /\ f.node = r.node}}
           IN  /\ r.result = "Fresh" <=> r.prev = -1
               /\ r.result = "Updated" <=> (r.prev # -1 /\ r.prev < r.time)
               /\ r.result = "Stale" <=> (r.prev # -1 /\ r.prev >= r.time)
               /\ seen = {IF r.result = "Stale" THEN r.prev ELSE r.time}
               /\ \A t \in seen : t >= r.prev
    /\ (inserts # {} /\ \A r \in inserts : r.result = "Stale") => ~effect.routing

\* One announcement makes a Stale insert and an insert that is not.
C8_Witness ==
    /\ \E r \in inserts : r.result = "Stale"
    /\ \E r \in inserts : r.result = "Fresh"

\* C9: if routing_max_size > 0, the routing table holds at most
\* routing_max_size entries right after a prune.
C9_PruneBoundsSize ==
    (PruneEvent /\ limits.routing_max_size > 0) =>
        Cardinality(routing) <= limits.routing_max_size

\* A prune under routing_max_size > 0 evicts an entry that has not expired.
C9_Witness ==
    /\ PruneEvent
    /\ limits.routing_max_size > 0
    /\ effect.dropped # {}
    /\ \A e \in routing : now - e.time <= limits.routing_max_age
    /\ Cardinality(routing) = limits.routing_max_size
    /\ \E e \in routing : e.time >= now

\* C10 as stated: if routing_max_age > 0, no entry is older than
\* routing_max_age right after a prune.
C10_PruneDropsAllExpired ==
    (PruneEvent /\ limits.routing_max_age > 0) =>
        \A e \in routing : ~(now - e.time > limits.routing_max_age)

\* C10, amended: right after prune(now) an entry older than routing_max_age
\* is left only if the table holds at most routing_max_size entries, and the
\* prune dropped no more entries than the table exceeded routing_max_size by:
\* expired entries are dropped only as far as the table is over its size.
C10_ExpiredDroppedWhileOverSize ==
    PruneEvent =>
        /\ (\E e \in routing : now - e.time > limits.routing_max_age)
               => Cardinality(routing) <= limits.routing_max_size
        /\ Cardinality(effect.dropped)
               <= Max(Cardinality(routing) + Cardinality(effect.dropped)
                          - limits.routing_max_size, 0)

\* A prune under routing_max_age > 0 drops an expired entry and leaves
\* another expired entry in the table.
C10_Witness ==
    /\ PruneEvent
    /\ limits.routing_max_age > 0
    /\ effect.dropped # {}
    /\ \E e \in routing : now - e.time > limits.routing_max_age

\* C11: when the periodic prune runs on a table of N entries that are all
\* older than routing_max_age, it leaves exactly min(N, routing_max_size)
\* entries: none under routing_max_size = 0, also when routing_max_age = 0.
C11_PruneOfExpiredLeavesMin ==
    (PruneEvent /\ \A e \in before_prune : now - e.time > limits.routing_max_age) =>
        LET N == Cardinality(before_prune)
        IN  Cardinality(routing) =
                IF N < limits.routing_max_size THEN N ELSE limits.routing_max_size

\* A prune of several entries, all expired, under routing_max_size = 1.
C11_Witness ==
    /\ PruneEvent
    /\ Cardinality(before_prune) >= 2
    /\ \A e \in before_prune : now - e.time > limits.routing_max_age
    /\ limits.routing_max_size = 1
    /\ Cardinality(routing) = 1

\* The session before the latest operation was Connected with this protocol.
WasConnectedWith(protocol) ==
    lastOp.before.state.tag = "Connected" /\ lastOp.before.state.protocol = protocol

\* C12: Session::fetch(rid) returns Ready(Fetch{rid}) exactly when the
\* session is Connected with Gossip{requested: none}; AlreadyFetching(r) when
\* it is Connected with Gossip{requested: r} or Fetch{rid: r}, r being the
\* repository requested or fetched, not the argument; NotConnected when it is
\* Connecting or Disconnected.
C12_FetchResult ==
    lastOp.op = "fetch" =>
        LET b == lastOp.before.state
        IN  /\ lastOp.result = [tag |-> "Ready", rid |-> lastOp.rid]
                <=> (b.tag = "Connected" /\ b.protocol = [kind |-> "Gossip", rid |-> NoRid])
            /\ (b.tag = "Connected" /\ b.protocol.rid # NoRid)
                => lastOp.result = [tag |-> "AlreadyFetching", rid |-> b.protocol.rid]
            /\ b.tag \in {"Connecting", "Disconnected"} <=> lastOp.result.tag = "NotConnected"

\* fetch is asked for one repository while another is being fetched.
C12_Witness ==
    /\ lastOp.op = "fetch"
    /\ lastOp.before.state.tag = "Connected"
    /\ lastOp.before.state.protocol.kind = "Fetch"
    /\ lastOp.before.state.protocol.rid # lastOp.rid
    /\ lastOp.result.tag = "AlreadyFetching"

\* The protocol of the session became this with the latest operation.
Became(protocol) ==
    /\ session.state.tag = "Connected"
    /\ session.state.protocol = protocol
    /\ ~WasConnectedWith(protocol)

\* C14 as stated: the protocol becomes Gossip{requested: rid} only from
\* Connected{Gossip{requested: none}} and Fetch{rid} only from
\* Connected{Gossip{requested: rid}}.
C14_TransitionsFollowDiagram ==
    \A rid \in Projects :
        /\ Became(Gossip(rid)) => WasConnectedWith(Gossip(NoRid))
        /\ Became(Fetch(rid)) => WasConnectedWith(Gossip(rid))

\* C14, amended: to_requesting(rid) and to_fetching(rid) succeed in every
\* Connected state, whatever its protocol, and set the protocol to
\* Gossip{requested: rid} and Fetch{rid}, leaving everything else of the
\* session (since and ping included) as it was; in Connecting and
\* Disconnected they panic.
C14_RequestingAndFetchingOnlyNeedConnected ==
    lastOp.op \in {"to_requesting", "to_fetching"} =>
        LET b == lastOp.before
            protocol == IF lastOp.op = "to_requesting"
                        THEN [kind |-> "Gossip", rid |-> lastOp.rid]
                        ELSE [kind |-> "Fetch", rid |-> lastOp.rid]
        IN  IF b.state.tag = "Connected"
            THEN /\ ~panicked
                 /\ session = [b EXCEPT !.state.protocol = protocol]
            ELSE /\ panicked
                 /\ session = b

\* to_requesting replaces a fetch in progress with a request for another
\* repository.
C14_Witness ==
    /\ lastOp.op = "to_requesting"
    /\ lastOp.before.state.tag = "Connected"
    /\ lastOp.before.state.protocol.kind = "Fetch"
    /\ lastOp.before.state.protocol.rid # lastOp.rid
    /\ session.state.protocol = [kind |-> "Gossip", rid |-> lastOp.rid]

\* C15 as stated: to_gossip succeeds only from Connected{Fetch{..}}, where
\* it sets the protocol to Gossip{requested: none} and leaves since and ping;
\* in any other state it panics.
C15_ToGossipPanicsElsewhere ==
    lastOp.op = "to_gossip" =>
        LET b == lastOp.before
        IN  IF b.state.tag = "Connected" /\ b.state.protocol.kind = "Fetch"
            THEN /\ ~panicked
                 /\ session = [b EXCEPT !.state.protocol = [kind |-> "Gossip", rid |-> NoRid]]
            ELSE panicked

\* C15, amended: to_gossip sets the protocol of a Connected{Fetch{..}}
\* session to Gossip{requested: none}, leaving since and ping; on a Connected
\* session with Gossip{..} it panics; on a Connecting or Disconnected session
\* it returns without a panic and leaves the session as it is.
C15_ToGossip ==
    lastOp.op = "to_gossip" =>
        LET b == lastOp.before
        IN  IF b.state.tag = "Connected"
            THEN IF b.state.protocol.kind = "Fetch"
                 THEN /\ ~panicked
                      /\ session = [b EXCEPT !.state.protocol = [kind |-> "Gossip", rid |-> NoRid]]
                 ELSE /\ panicked
                      /\ session = b
            ELSE /\ ~panicked
                 /\ session = b

\* to_gossip returns on a Disconnected session.
C15_Witness ==
    /\ lastOp.op = "to_gossip"
    /\ lastOp.before.state.tag = "Disconnected"
    /\ ~panicked
    /\ session.state.tag = "Disconnected"

\* C16: to_connecting is valid only on a Disconnected session (in Connecting
\* and in every Connected variant its assertion fails); when valid it sets the
\* state to Connecting and adds exactly 1 to attempts, leaving persistent,
\* link and subscribe.
C16_ToConnecting ==
    lastOp.op = "to_connecting" =>
        LET b == lastOp.before
        IN  IF b.state.tag = "Disconnected"
            THEN /\ ~panicked
                 /\ session.state.tag = "Connecting"
                 /\ session.attempts = b.attempts + 1
                 /\ session.persistent = b.persistent
                 /\ session.link = b.link
                 /\ session.subscribe = b.subscribe
            ELSE /\ panicked
                 /\ session = b

\* A session that holds a subscription and has made an attempt before is
\* moved to Connecting again.
C16_Witness ==
    /\ lastOp.op = "to_connecting"
    /\ ~panicked
    /\ lastOp.before.attempts >= 1
    /\ lastOp.before.subscribe.active
    /\ session.state.tag = "Connecting"

\* C17: to_connected(since) is valid only on a Connecting session (its
\* assertion fails otherwise); when valid it sets attempts to 0 and the state
\* to Connected with the given since, ping None and Gossip{requested: none}.
C17_ToConnected ==
    lastOp.op = "to_connected" =>
        LET b == lastOp.before
        IN  IF b.state.tag = "Connecting"
            THEN /\ ~panicked
                 /\ session.attempts = 0
                 /\ session.state = [tag |-> "Connected", since |-> lastOp.time,
                                     ping |-> [tag |-> "None", ponglen |-> 0],
                                     protocol |-> [kind |-> "Gossip", rid |-> NoRid]]
            ELSE /\ panicked
                 /\ session = b

\* A session that was connecting for the second time becomes connected.
C17_Witness ==
    /\ lastOp.op = "to_connected"
    /\ ~panicked
    /\ lastOp.before.attempts >= 2
    /\ session.state.tag = "Connected"

\* C18: to_disconnected(t) is permitted in every state and leaves the
\* session in Disconnected{since: t}, attempts, persistent, link and
\* subscribe as they were.
C18_ToDisconnected ==
    lastOp.op = "to_disconnected" =>
        LET b == lastOp.before
        IN  /\ ~panicked
            /\ session.state.tag = "Disconnected"
            /\ session.state.since = lastOp.time
            /\ session.attempts = b.attempts
            /\ session.persistent = b.persistent
            /\ session.link = b.link
            /\ session.subscribe = b.subscribe

\* A session in the middle of a fetch is disconnected.
C18_Witness ==
    /\ lastOp.op = "to_disconnected"
    /\ lastOp.before.state.tag = "Connected"
    /\ lastOp.before.state.protocol.kind = "Fetch"
    /\ session.state.tag = "Disconnected"

\* The session has asked the peer for this repository and waits.
Requesting(p) ==
    session.state.tag = "Connected" /\ session.state.protocol = Gossip(p)

\* A step that takes the session out of Gossip { requested: p }, to
\* Fetch { p } or back to Gossip { requested: none }.
LeavesRequesting(p) ==
    /\ NextFetch
    /\ session'.state.tag = "Connected"
    /\ session'.state.protocol \in {Fetch(p), ProtocolDefault}

ResultArrived(tag) ==
    /\ lastOp.op = "fetch_complete"
    /\ lastOp.result.tag = tag
    /\ WasConnectedWith(Fetch(lastOp.rid))

\* The protocols the session went through last.
TrailEnd(n) == SubSeq(trail, Len(trail) - n + 1, Len(trail))

DeadlinePassed(protocol) ==
    lastOp.op = "expire" /\ WasConnectedWith(protocol)

TrackedThenUntracked ==
    /\ prevTrack.op = "track"
    /\ lastTrack.op = "untrack"
    /\ prevTrack.rid = lastTrack.rid
    /\ lastTrack.before = track(prevTrack.before, prevTrack.rid).policy

\* C28 as stated: under every tracking policy, track(p) followed by
\* untrack(p) leaves is_tracking(p) as it was before the two.
C28_TrackUntrackRestores ==
    TrackedThenUntracked =>
        is_tracking(project_tracking, lastTrack.rid) = is_tracking(prevTrack.before, lastTrack.rid)

\* C28, amended: under every tracking policy, track(p) followed by
\* untrack(p) leaves is_tracking(p) false; that is its value before the two
\* exactly when p was not tracked before them.
C28_TrackUntrackLeavesUntracked ==
    TrackedThenUntracked =>
        /\ ~is_tracking(project_tracking, lastTrack.rid)
        /\ (is_tracking(project_tracking, lastTrack.rid) = is_tracking(prevTrack.before, lastTrack.rid))
               <=> ~is_tracking(prevTrack.before, lastTrack.rid)

\* A project tracked under TrackAll is tracked, then untracked.
C28_Witness ==
    /\ TrackedThenUntracked
    /\ prevTrack.before.kind = "All"
    /\ is_tracking(prevTrack.before, lastTrack.rid)
    /\ ~is_tracking(project_tracking, lastTrack.rid)

\* C29: under every tracking policy, after Track(p) is_tracking(p) is true,
\* after Untrack(p) it is false, and what is reported back is true exactly
\* when is_tracking(p) changed.
C29_TrackAndUntrackCommands ==
    LET p == lastTrack.rid
        was == is_tracking(lastTrack.before, p)
        is == is_tracking(project_tracking, p)
    IN  /\ lastTrack.op = "track" => is
        /\ lastTrack.op = "untrack" => ~is
        /\ lastTrack.op # "none" => (lastTrack.changed <=> (was # is))

\* Session::ping was called on a session in this state.
Pinged(tag) == lastOp.op = "ping" /\ lastOp.before.state.tag = tag

\* C25 as stated: Session::ping writes a Ping only to a Connected session
\* whose ping state is None, exactly one, with ponglen in
\* 0..MAX_PONG_ZEROES, and stores that ponglen in AwaitingResponse; a session
\* that is AwaitingResponse keeps the ponglen it stored; a session that is
\* not Connected is written nothing and does not change.
C25_PingOnlyWhenNone ==
    lastOp.op = "ping" =>
        IF Pinged("Connected") /\ lastOp.before.state.ping = PingNone
        THEN /\ outbox = <<WritePing(session.id, lastOp.time)>>
             /\ lastOp.time \in 0..MAX_PONG_ZEROES
             /\ session = [lastOp.before EXCEPT !.state.ping = AwaitingResponse(lastOp.time)]
        ELSE /\ outbox = <<>>
             /\ session = lastOp.before

\* C25, amended: Session::ping on a Connected session, whatever its ping
\* state, writes exactly one Ping with ponglen in 0..MAX_PONG_ZEROES and sets
\* ping = AwaitingResponse(ponglen) with the ponglen of the Ping just
\* written, replacing a ponglen stored before; on a session that is not
\* Connected it writes nothing and changes nothing.
C25_PingWhenConnected ==
    lastOp.op = "ping" =>
        IF Pinged("Connected")
        THEN /\ outbox = <<WritePing(session.id, lastOp.time)>>
             /\ lastOp.time \in 0..MAX_PONG_ZEROES
             /\ session = [lastOp.before EXCEPT !.state.ping = AwaitingResponse(lastOp.time)]
        ELSE /\ outbox = <<>>
             /\ session = lastOp.before

\* A session that awaits a pong is pinged again, with another length.
C25_Witness ==
    /\ Pinged("Connected")
    /\ lastOp.before.state.ping.tag = "AwaitingResponse"
    /\ lastOp.before.state.ping.ponglen # lastOp.time
    /\ session.state.ping = AwaitingResponse(lastOp.time)

\* C24: a Ping received from a connected peer that asks for a pong of at
\* most MAX_PONG_ZEROES is answered with exactly one Pong of the length asked
\* for; a Ping that asks for more produces no message to the peer and no
\* disconnect; either way the session stays Connected.
C24_PingAnswered ==
    lastKeep.event = "ping" =>
        LET n == lastKeep.node
        IN  /\ is_connected(keep[n].session)
            /\ IF lastKeep.len <= MAX_PONG_ZEROES
               THEN lastKeep.out = <<WritePong(Other(n), lastKeep.len)>>
               ELSE lastKeep.out = <<>>

\* Alice is asked for a pong longer than supported and stays silent.
C24_Witness ==
    /\ lastKeep.event = "ping"
    /\ lastKeep.node = "alice"
    /\ lastKeep.len = MAX_PONG_ZEROES + 1
    /\ lastKeep.out = <<>>

\* A node woke and found its connected session idle for longer than the
\* timeout.
WokeStale ==
    /\ lastKeep.event = "wake"
    /\ is_connected(lastKeep.before)
    /\ lastKeep.len > STALE_CONNECTION_TIMEOUT

\* C26: when a node wakes and nothing has been received from the peer of a
\* connected session for more than STALE_CONNECTION_TIMEOUT, the node emits
\* Disconnect(peer, Timeout).
C26_StaleSessionDisconnected ==
    WokeStale =>
        \E i \in 1..Len(lastKeep.out) :
            lastKeep.out[i] = Disconnect(Other(lastKeep.node), "Timeout", 0)

\* Bob is unresponsive and alice gives up on it.
C26_Witness ==
    /\ WokeStale
    /\ lastKeep.node = "alice"
    /\ ~responsive
    /\ \E i \in 1..Len(lastKeep.out) : lastKeep.out[i].reason = "Timeout"

LostPeer == lastConn.event = "disconnected"

\* The Connect actions among the Io of the latest connection event.
Connects == SelectSeq(lastConn.out, LAMBDA io : io.io = "Connect")

\* The peer was lost to a connection error, the transient kind of failure.
TransientLoss == lastConn.reason = "ConnectionError"

\* The conditions under which a lost peer is dialled again.
DialledAgain ==
    /\ TransientLoss
    /\ lastConn.before.persistent
    /\ lastConn.before.attempts < MAX_CONNECTION_ATTEMPTS

\* C21: the disconnect of a persistent peer by a transient connection error
\* produces exactly one Connect to that peer and nothing else while the
\* attempts of its session are below MAX_CONNECTION_ATTEMPTS, and nothing
\* once they have reached it; the Connects to a peer since it was last
\* connected never exceed MAX_CONNECTION_ATTEMPTS, and a successful
\* connection resets the count.
C21_PersistentReconnect ==
    /\ (LostPeer /\ lastConn.before.persistent /\ TransientLoss) =>
           IF lastConn.before.attempts < MAX_CONNECTION_ATTEMPTS
           THEN lastConn.out = <<Connect(lastConn.addr)>>
           ELSE lastConn.out = <<>>
    /\ \A a \in Addrs : redials[a] <= MAX_CONNECTION_ATTEMPTS
    /\ lastConn.event = "connected" =>
           (conns[lastConn.addr].attempts = 0 /\ redials[lastConn.addr] = 0)

\* The fourth disconnect in a row of a persistent peer.
C21_Witness ==
    /\ LostPeer
    /\ lastConn.before.persistent
    /\ TransientLoss
    /\ lastConn.before.attempts = MAX_CONNECTION_ATTEMPTS
    /\ redials[lastConn.addr] = MAX_CONNECTION_ATTEMPTS
    /\ lastConn.out = <<>>

\* C22 as stated: a disconnect that is not a transient failure of a
\* persistent peer with attempts below the maximum produces no Connect at
\* all.
C22_NoConnectOtherwise ==
    (LostPeer /\ ~DialledAgain) => Connects = <<>>

\* C22, amended: a disconnect that is not a transient failure of a
\* persistent peer with attempts below the maximum produces no Connect to
\* that peer; a dial error, a requested disconnect and the disconnect of a
\* peer that was not connected produce no Connect at all.
C22_NoReconnectOtherwise ==
    (LostPeer /\ ~DialledAgain) =>
        /\ \A i \in 1..Len(Connects) : Connects[i].peer # lastConn.addr
        /\ (~TransientLoss \/ ~is_connected(lastConn.before)) => lastConn.out = <<>>

\* A dial error on a connected persistent peer, other addresses being known.
C22_Witness ==
    /\ LostPeer
    /\ lastConn.reason = "DialError"
    /\ lastConn.before.persistent
    /\ is_connected(lastConn.before)
    /\ book \ lastConn.busy # {}
    /\ lastConn.out = <<>>

\* A connected peer was lost to a transient error, is not dialled again, and
\* a known address was free.
LostAndFree ==
    /\ LostPeer
    /\ ~DialledAgain
    /\ TransientLoss
    /\ is_connected(lastConn.before)
    /\ book \ (lastConn.busy \cup {lastConn.addr}) # {}

SendsTo(p, queue) == SelectSeq(queue, LAMBDA a : a.action = "Send" /\ a.fd = fd_by_id(p))

\* The batches of messages that left or are queued for a peer, in order.
Leaving(p) ==
    LET sends == SendsTo(p, handed \o actions)
    IN  [i \in 1..Len(sends) |-> decode(sends[i].data)]

\* The batches the service holds for a peer, not yet taken by the transport.
Held(p) ==
    LET writes == SelectSeq(service_io, LAMBDA ev : ev.io = "Write" /\ ev.peer = p)
    IN  [i \in 1..Len(writes) |-> writes[i].msgs]

IsPrefix(s, t) == Len(s) <= Len(t) /\ SubSeq(t, 1, Len(s)) = s

\* C30: the messages for a peer leave in the order the service produced
\* them: each write is one Send holding its messages in order, the Sends for
\* a peer are queued and handed to the reactor in the order of the writes,
\* so the batches that left or are queued are the first the service wrote,
\* and together with those it still holds they are all it wrote.
C30_WritesLeaveInOrder ==
    \A p \in Peers :
        /\ IsPrefix(Leaving(p), produced[p])
        /\ ~wire_panicked => Leaving(p) \o Held(p) = produced[p]

\* Two writes to bob, the first of two different messages, have been handed
\* to the reactor.
C30_Witness ==
    /\ Len(SendsTo("bob", handed)) = 2
    /\ produced["bob"][1] = <<"ann", "ping">>
    /\ produced["bob"][2] = <<"ping">>

\* C34: Framer::frame returns the payload prefixed by its length as two
\* big-endian bytes for every payload of at most 65 535 bytes, two bytes
\* longer than the payload, and OversizedData only for a longer payload.
C34_FramePrefixesLength ==
    lastFrame.op = "frame" =>
        IF Len(lastFrame.payload) <= 65535
        THEN /\ lastFrame.result = Ok(to_be_bytes(Len(lastFrame.payload)) \o lastFrame.payload)
             /\ Len(lastFrame.result.bytes) = Len(lastFrame.payload) + 2
        ELSE lastFrame.result = Err

\* The number of frames of the stream whose last byte has arrived.
RECURSIVE WholeFrames(_, _)
WholeFrames(ps, n) ==
    IF ps = <<>> \/ n < Len(FrameOf(Head(ps))) THEN 0
    ELSE 1 + WholeFrames(Tail(ps), n - Len(FrameOf(Head(ps))))

\* C35: however the stream of frames is split into chunks, the Framer has
\* yielded exactly the payloads of the frames whose last byte has arrived,
\* each once and in order, and a next() that gave None consumed nothing.
C35_FramerYieldsFrames ==
    /\ yielded = SubSeq(payloads, 1, WholeFrames(payloads, arrived))
    /\ kept

\* C36: a MuxMsg converted into a Frame is the channel id as two big-endian
\* bytes and then the data, and the frame converted back gives the channel
\* and the data it was made from; a frame shorter than two bytes gives
\* ChannelError.
C36_ChannelRoundTrip ==
    /\ lastMux.op = "roundtrip" =>
           /\ lastMux.frame = to_be_bytes(lastMux.channel) \o lastMux.data
           /\ lastMux.result = [ok |-> TRUE, channel |-> lastMux.channel, bytes |-> lastMux.data]
    /\ lastMux.op = "try_from" => lastMux.result = Err

\* The sockets the bytes of a sequence came from.
Origins(bytes) == {bytes[i].from : i \in 1..Len(bytes)}

\* C31: every message given to the service is made only of bytes received
\* from the peer it is attributed to; the bytes one peer left on the read
\* queue are never decoded as part of another peer's message.
C31_MessagesOfOnePeer ==
    \A i \in 1..Len(delivered) : delivered[i].from = {delivered[i].fd}

\* The states of a peer follow one another as an upgrade has them: from
\* Upgrading to Upgraded only, from Upgraded to Connected only.
TrailInOrder(fd) ==
    \A i \in 1..(Len(peer_trail[fd]) - 1) :
        /\ peer_trail[fd][i] = "Upgrading" => peer_trail[fd][i + 1] = "Upgraded"
        /\ peer_trail[fd][i] = "Upgraded" => peer_trail[fd][i + 1] = "Connected"

\* The bytes that went to a peer other than the one they came from: into
\* the request of its worker or into a message attributed to it.
Strayed(fd) ==
    \/ \E other \in Fds \ {fd} : fd \in Origins(jobs[other].drain)
    \/ \E i \in 1..Len(delivered) : delivered[i].fd # fd /\ fd \in delivered[i].from

\* C32: a peer that is upgraded goes from Connected to Upgrading, to
\* Upgraded and back to Connected in that order; the request to the worker
\* carries the bytes received from that peer that were not decoded, and no
\* others; no byte received from that peer is lost, to another peer or off
\* the read queue.
C32_UpgradeHandsOverThePeersBytes ==
    \A fd \in Fds :
        /\ TrailInOrder(fd)
        /\ jobs[fd].state # "none" =>
               /\ Origins(jobs[fd].drain) \subseteq {fd}
               /\ ~Strayed(fd)
               /\ fd \notin Origins(lost_bytes)

\* C33: an upgrade can always finish: an Upgrading peer has its handover
\* queued with the reactor, an Upgraded peer has a worker at work on its
\* request or a response waiting for the next tick; and the service is told
\* of the completion of a fetch at most once.
C33_UpgradeCanFinish ==
    ~wire_panicked =>
        \A fd \in Fds :
            /\ peers[fd].peer.tag = "Upgrading" =>
                   \E i \in 1..Len(actions) : actions[i] = UnregisterTransport(fd)
            /\ peers[fd].peer.tag = "Upgraded" => jobs[fd].state \in {"working", "ready"}
            /\ peers[fd].id \in Peers => svc[peers[fd].id].completed <= svc[peers[fd].id].started

\* The entries of a node id that are past the handshake and not
\* disconnected.
Live(id) == {fd \in Fds : peers[fd].id = id /\ peers[fd].peer.tag \in {"Connected", "Upgrading", "Upgraded"}}

\* C38: at most one peer entry per node id is Connected, Upgrading or
\* Upgraded.
C38_OneLivePeerPerNode ==
    \A id \in Peers : Cardinality(Live(id)) <= 1

\* C39: while the transport holds a Connected peer for a node id, the last
\* the service was told about that node is that it connected.
C39_ServiceKnowsConnected ==
    \A fd \in Fds :
        (~wire_panicked /\ peers[fd].peer.tag = "Connected") => svc[peers[fd].id].last = "connected"

\* The transport was asked to disconnect the peer of the latest step: its
\* connection terminated, its message was invalid, or the service asked.
Disconnecting ==
    \/ lastWire.event \in {"terminated", "Disconnect"}
    \/ lastWire.event = "data" /\ lastWire.before.peer.tag = "Connected" /\ peers[lastWire.fd].peer.tag # "Connected"

\* C40: a disconnect of a peer that is Connecting, Connected, Upgrading or
\* Upgraded makes it Disconnected, with its node id if it had one, and
\* queues its socket for unregistration; a disconnect of a Disconnected peer
\* changes nothing; and the transport never panics.
C40_DisconnectAlwaysPermitted ==
    /\ ~wire_panicked
    /\ Disconnecting =>
           /\ peers[lastWire.fd] = PeerEntry(PeerDisconnected, lastWire.before.id)
           /\ lastWire.before.peer.tag # "Disconnected" =>
                  actions # <<>> /\ actions[Len(actions)] = UnregisterTransport(lastWire.fd)

\* --------------------------------------------------- convergence of gossip

\* Simulation::is_settled, with every session of the network established:
\* no message is in flight.
is_settled ==
    \A l \in Routes : mesh[l[1]].sessions[l[2]].state = "connected" /\ inflight[l] = <<>>

\* The nodes hosting a project, and the remote seeds a node reports for it.
Hosts(rid) == {n \in MeshNodes : rid \in mesh_storage[n]}

Seeds(n, rid) == {e.node : e \in {f \in mesh[n].routing : f.rid = rid}}

\* The pairs (project, node) of the whole network.
HostedPairs == {pr \in MeshProjects \X MeshNodes : pr[2] \in Hosts(pr[1])}

\* A node that does not host a hosted project reports exactly the hosting
\* nodes as its seeds, and every seed has the project.
SeedsConverged ==
    \A rid \in MeshProjects : \A n \in MeshNodes \ Hosts(rid) :
        Hosts(rid) # {} =>
            /\ Seeds(n, rid) # {}
            /\ Seeds(n, rid) = Hosts(rid)
            /\ \A seed \in Seeds(n, rid) : rid \in mesh_storage[seed]

\* The routing tables of all nodes hold the same (project, node) pairs.
\* This fails in the network above as soon as a node hosts a project: an
\* inventory reaches a table only through an accepted announcement, and no
\* node is relayed its own.  The network leaves out whatever carries the
\* routes test_e2e seeds into the routing databases from node to node, so
\* the failure settles nothing about C37.
TablesAgree ==
    is_settled => \A n, m \in MeshNodes : Pairs(mesh[n].routing) = Pairs(mesh[m].routing)

\* Once the network is settled, a node that does not host a project reports
\* exactly the hosting nodes as its remote seeds, and the routing table of
\* every node holds the pairs of every other hosting node.
SeedsAgree ==
    is_settled =>
        /\ SeedsConverged
        /\ \A n \in MeshNodes : Pairs(mesh[n].routing) = {pr \in HostedPairs : pr[2] # n}

\* The network is settled with a project two nodes host, and the third node
\* reports the two of them as its seeds.
SettledWithTwoHosts ==
    /\ is_settled
    /\ \E rid \in MeshProjects : \E n \in MeshNodes \ Hosts(rid) :
           /\ Cardinality(Hosts(rid)) = 2
           /\ Seeds(n, rid) = Hosts(rid)

====
